---- MODULE Spec2Model ----
(***************************************************************************)
(* Model of the GitHub -> Codeberg migration tool: the StateManager        *)
(* (state/state-manager.ts), the per-repository two-phase state machine    *)
(* migrateRepo (migration/repo-migrator.ts), the sequential main loop      *)
(* (index main), discovery (orchestration/discover-and-batch.ts) and the   *)
(* merge of batch state files (orchestration/merge-states.ts).             *)
(*                                                                         *)
(* Optional fields (z.string().optional()) are modelled as sequences of    *)
(* length at most one: <<>> is undefined/absent, <<v>> is the value v.     *)
(* Timestamps are integers; the unit of the wall clock `now` is one day.   *)
(* Error messages are sequences of one-character strings, so that          *)
(* toLowerCase() and includes() are computed, not assumed.                 *)
(***************************************************************************)
EXTENDS Integers, Sequences, FiniteSets, TLC

(* ------------------------------ bounds -------------------------------- *)
\* the wall clock runs from 0 to MaxTime
MaxTime == 2
\* a repository is entered by migrateRepo at most MaxAttempts times
MaxAttempts == 3
\* largest maxCount handed to getReposToProcess
MaxCount == 1

\* the repository names of the source organisation
Names == {"a"}

(* ----------------------------- optionals ------------------------------ *)
None == <<>>
Some(v) == <<v>>
IsSome(o) == o # <<>>
Get(o) == o[1]

(* --------------------------- error messages --------------------------- *)
UpperCase == <<"A","B","C","D","E","F","G","H","I","J","K","L","M",
               "N","O","P","Q","R","S","T","U","V","W","X","Y","Z">>
LowerCase == <<"a","b","c","d","e","f","g","h","i","j","k","l","m",
               "n","o","p","q","r","s","t","u","v","w","x","y","z">>

\* String.prototype.toLowerCase on one character
LowerChar(c) ==
  IF \E i \in 1..26 : UpperCase[i] = c
  THEN LowerCase[CHOOSE i \in 1..26 : UpperCase[i] = c]
  ELSE c

\* String.prototype.toLowerCase
toLowerCase(s) == [i \in 1..Len(s) |-> LowerChar(s[i])]

\* String.prototype.includes
includes(s, p) ==
  \E i \in 0..(Len(s) - Len(p)) : SubSeq(s, i + 1, i + Len(p)) = p

\* the keywords of classifyError and of the conflict test of migrateRepo
KwRateLimit == <<"r","a","t","e"," ","l","i","m","i","t">>
KwTimeout == <<"t","i","m","e","o","u","t">>
KwEconnreset == <<"e","c","o","n","n","r","e","s","e","t">>
KwEnotfound == <<"e","n","o","t","f","o","u","n","d">>
KwNetwork == <<"n","e","t","w","o","r","k">>
Kw503 == <<"5","0","3">>
Kw502 == <<"5","0","2">>
Kw504 == <<"5","0","4">>
KwAlreadyExists == <<"a","l","r","e","a","d","y"," ","e","x","i","s","t","s">>
Kw409 == <<"4","0","9">>
KwConflict == <<"c","o","n","f","l","i","c","t">>
KwNotFound == <<"n","o","t"," ","f","o","u","n","d">>
Kw404 == <<"4","0","4">>
KwForbidden == <<"f","o","r","b","i","d","d","e","n">>
Kw403 == <<"4","0","3">>
KwUnauthorized == <<"u","n","a","u","t","h","o","r","i","z","e","d">>
Kw401 == <<"4","0","1">>

\* classifyError of repo-migrator.ts, on the message of the error
\* faulty variant: the permanent keywords are tried first
classifyError_PermanentFirst(message) ==
  LET lowerMessage == toLowerCase(message) IN
  IF \/ includes(lowerMessage, KwNotFound)
     \/ includes(lowerMessage, Kw404)
     \/ includes(lowerMessage, KwForbidden)
     \/ includes(lowerMessage, Kw403)
     \/ includes(lowerMessage, KwUnauthorized)
     \/ includes(lowerMessage, Kw401)
  THEN "permanent"
  ELSE IF \/ includes(lowerMessage, KwRateLimit)
          \/ includes(lowerMessage, KwTimeout)
          \/ includes(lowerMessage, KwEconnreset)
          \/ includes(lowerMessage, KwEnotfound)
          \/ includes(lowerMessage, KwNetwork)
          \/ includes(lowerMessage, Kw503)
          \/ includes(lowerMessage, Kw502)
          \/ includes(lowerMessage, Kw504)
  THEN "transient"
  ELSE IF \/ includes(lowerMessage, KwAlreadyExists)
          \/ includes(lowerMessage, Kw409)
          \/ includes(lowerMessage, KwConflict)
  THEN "recoverable"
  ELSE "transient"

classifyError(message) ==
  LET lowerMessage == toLowerCase(message) IN
  IF \/ includes(lowerMessage, KwRateLimit)
     \/ includes(lowerMessage, KwTimeout)
     \/ includes(lowerMessage, KwEconnreset)
     \/ includes(lowerMessage, KwEnotfound)
     \/ includes(lowerMessage, KwNetwork)
     \/ includes(lowerMessage, Kw503)
     \/ includes(lowerMessage, Kw502)
     \/ includes(lowerMessage, Kw504)
  THEN "transient"
  ELSE IF \/ includes(lowerMessage, KwAlreadyExists)
          \/ includes(lowerMessage, Kw409)
          \/ includes(lowerMessage, KwConflict)
  THEN "recoverable"
  ELSE IF \/ includes(lowerMessage, KwNotFound)
          \/ includes(lowerMessage, Kw404)
          \/ includes(lowerMessage, KwForbidden)
          \/ includes(lowerMessage, Kw403)
          \/ includes(lowerMessage, KwUnauthorized)
          \/ includes(lowerMessage, Kw401)
  THEN "permanent"
  ELSE "transient"

\* messages the remote calls fail with (request() builds
\* "Codeberg API error: <status> <statusText> - <body>"; shortened here)
Msg409 == <<"4","0","9"," ","C","o","n","f","l","i","c","t">>
MsgConflict == <<"c","o","n","f","l","i","c","t">>
Msg404 == <<"4","0","4"," ","N","o","t"," ","F","o","u","n","d">>
Msg503 == <<"5","0","3">>
MsgBoom == <<"b","o","o","m">>
\* a conflict worded with a capital letter and without the status
MsgAlreadyExists ==
  <<"A","l","r","e","a","d","y"," ","e","x","i","s","t","s">>

(* ------------------------- state-manager.ts --------------------------- *)
\* A snapshot (MigrationState.repos) is the sequence of its RepoState
\* records in insertion order; the keys of the map are the name fields.

\* the default record setRepoState and addRepos create
NewRepoState(name) ==
  [name |-> name, status |-> "pending", lastAttempt |-> None,
   completedAt |-> None, lastSyncedAt |-> None, githubPushedAt |-> None,
   error |-> None, errorType |-> None, attemptCount |-> 0,
   phases |-> [apiMigration |-> FALSE, branchSync |-> FALSE]]

\* Object.keys(this.state.repos)
Keys(repos) == {repos[i].name : i \in 1..Len(repos)}

\* name in this.state.repos
Has(repos, name) == name \in Keys(repos)

\* getRepoState: the record of name (callers test Has first)
getRepoState(repos, name) ==
  repos[CHOOSE i \in 1..Len(repos) : repos[i].name = name]

\* { ...existing, ...state }: the fields of the partial overwrite
Spread(existing, partial) ==
  [f \in DOMAIN existing |->
     IF f \in DOMAIN partial THEN partial[f] ELSE existing[f]]

\* faulty variant: the record is added at the end even when the name has one
setRepoState_Appends(repos, repoName, partial) ==
  Append(repos,
         Spread(IF Has(repos, repoName) THEN getRepoState(repos, repoName)
                ELSE NewRepoState(repoName), partial))

\* faulty variant: the partial is applied to the default record even when
\* there is a record
setRepoState_FromDefault(repos, repoName, partial) ==
  IF Has(repos, repoName)
  THEN [i \in 1..Len(repos) |->
          IF repos[i].name = repoName
          THEN Spread(NewRepoState(repoName), partial) ELSE repos[i]]
  ELSE Append(repos, Spread(NewRepoState(repoName), partial))

setRepoState(repos, repoName, partial) ==
  IF Has(repos, repoName)
  THEN [i \in 1..Len(repos) |->
          IF repos[i].name = repoName
          THEN Spread(repos[i], partial) ELSE repos[i]]
  ELSE Append(repos, Spread(NewRepoState(repoName), partial))

\* faulty variant: attemptCount ?? (0 + 1), the count is kept once there is one
markInProgress_NoIncrement(repos, repoName, t) ==
  setRepoState(repos, repoName,
    [status |-> "in_progress", lastAttempt |-> Some(t),
     attemptCount |->
       IF Has(repos, repoName)
       THEN getRepoState(repos, repoName).attemptCount ELSE 1])

markInProgress(repos, repoName, t) ==
  setRepoState(repos, repoName,
    [status |-> "in_progress", lastAttempt |-> Some(t),
     attemptCount |->
       (IF Has(repos, repoName)
        THEN getRepoState(repos, repoName).attemptCount ELSE 0) + 1])

\* faulty variant: error and errorType of an earlier failure are kept
markCompleted_KeepsError(repos, repoName, t) ==
  setRepoState(repos, repoName,
    [status |-> "completed", completedAt |-> Some(t),
     lastSyncedAt |-> Some(t),
     phases |-> [apiMigration |-> TRUE, branchSync |-> TRUE]])

markCompleted(repos, repoName, t) ==
  setRepoState(repos, repoName,
    [status |-> "completed", completedAt |-> Some(t),
     lastSyncedAt |-> Some(t), error |-> None, errorType |-> None,
     phases |-> [apiMigration |-> TRUE, branchSync |-> TRUE]])

\* faulty variant: a failure starts the phases over
markFailed_ResetsPhases(repos, repoName, error, errorType) ==
  setRepoState(repos, repoName,
    [status |-> "failed", error |-> Some(error),
     errorType |-> Some(errorType),
     phases |-> [apiMigration |-> FALSE, branchSync |-> FALSE]])

markFailed(repos, repoName, error, errorType) ==
  setRepoState(repos, repoName,
    [status |-> "failed", error |-> Some(error),
     errorType |-> Some(errorType)])

\* the reason is a fixed text built from excludeInactiveDays
markSkipped(repos, repoName, reason) ==
  setRepoState(repos, repoName,
    [status |-> "skipped", error |-> Some(reason), errorType |-> None])

markPhaseComplete(repos, repoName, phase) ==
  IF Has(repos, repoName)
  THEN setRepoState(repos, repoName,
         [phases |-> [getRepoState(repos, repoName).phases
                        EXCEPT ![phase] = TRUE]])
  ELSE repos

RECURSIVE addRepos(_, _)
addRepos(repos, repoNames) ==
  IF repoNames = <<>> THEN repos
  ELSE addRepos(
         IF Has(repos, Head(repoNames)) THEN repos
         ELSE Append(repos, NewRepoState(Head(repoNames))),
         Tail(repoNames))

\* listing: a sequence of [name, pushedAt], pushedAt optional
RECURSIVE addReposWithPushedAt(_, _)
addReposWithPushedAt(repos, listing) ==
  IF listing = <<>> THEN repos
  ELSE LET name == Head(listing).name
           pushedAt == Head(listing).pushedAt
       IN addReposWithPushedAt(
            IF ~Has(repos, name)
            THEN Append(repos,
                   [NewRepoState(name) EXCEPT !.githubPushedAt = pushedAt])
            ELSE IF IsSome(pushedAt)
            THEN [i \in 1..Len(repos) |->
                    IF repos[i].name = name
                    THEN [repos[i] EXCEPT !.githubPushedAt = pushedAt]
                    ELSE repos[i]]
            ELSE repos,
            Tail(listing))

\* .map((r) => r.name) on the filtered Object.values(this.state.repos)
MapName(kept) == [i \in 1..Len(kept) |-> kept[i].name]

IsPending(r) == r.status = "pending"
getPendingRepos(repos) == MapName(SelectSeq(repos, IsPending))

IsFailed(r) == r.status = "failed"
getFailedRepos(repos) == MapName(SelectSeq(repos, IsFailed))

\* faulty variant: every failed entity is retried
IsRetryable_AnyFailed(r) == r.status = "failed"

IsRetryable(r) ==
  /\ r.status = "failed"
  /\ r.errorType \in {Some("transient"), Some("recoverable")}
getRetryableRepos(repos) == MapName(SelectSeq(repos, IsRetryable))

\* the filter of getReposNeedingSync; the clock unit is one day, so that
\* Date.now() - excludeInactiveDays * 24 * 60 * 60 * 1000 is t - days
\* faulty variant: a push at the time of the last sync counts as newer
NeedsSync_NotStrict(r, excludeInactiveDays, t) ==
  IF r.status # "completed" THEN FALSE
  ELSE IF /\ excludeInactiveDays > 0
          /\ IsSome(r.githubPushedAt)
          /\ Get(r.githubPushedAt) < t - excludeInactiveDays
  THEN FALSE
  ELSE IF ~IsSome(r.lastSyncedAt) THEN IsSome(r.githubPushedAt)
  ELSE IF IsSome(r.githubPushedAt)
  THEN Get(r.githubPushedAt) >= Get(r.lastSyncedAt)
  ELSE FALSE

\* faulty variant: the status is not looked at
NeedsSync_AnyStatus(r, excludeInactiveDays, t) ==
  IF /\ excludeInactiveDays > 0
     /\ IsSome(r.githubPushedAt)
     /\ Get(r.githubPushedAt) < t - excludeInactiveDays
  THEN FALSE
  ELSE IF ~IsSome(r.lastSyncedAt) THEN IsSome(r.githubPushedAt)
  ELSE IF IsSome(r.githubPushedAt)
  THEN Get(r.githubPushedAt) > Get(r.lastSyncedAt)
  ELSE FALSE

NeedsSync(r, excludeInactiveDays, t) ==
  IF r.status # "completed" THEN FALSE
  ELSE IF /\ excludeInactiveDays > 0
          /\ IsSome(r.githubPushedAt)
          /\ Get(r.githubPushedAt) < t - excludeInactiveDays
  THEN FALSE
  ELSE IF ~IsSome(r.lastSyncedAt) THEN IsSome(r.githubPushedAt)
  ELSE IF IsSome(r.githubPushedAt)
  THEN Get(r.githubPushedAt) > Get(r.lastSyncedAt)
  ELSE FALSE

getReposNeedingSync(repos, excludeInactiveDays, t) ==
  LET pred(r) == NeedsSync(r, excludeInactiveDays, t)
  IN MapName(SelectSeq(repos, pred))

\* Array.prototype.slice: an index below 0 counts from the end
RelativeIndex(s, k) ==
  IF k < 0 THEN (IF Len(s) + k > 0 THEN Len(s) + k ELSE 0)
  ELSE IF k < Len(s) THEN k ELSE Len(s)

\* s.slice(start, end)
JsSlice(s, start, end) ==
  SubSeq(s, RelativeIndex(s, start) + 1, RelativeIndex(s, end))

\* combined.slice(0, maxCount)
Slice(s, n) == JsSlice(s, 0, n)

\* faulty variant: the pending entities come before the retryable ones
getReposToProcess_PendingFirst(repos, maxCount, includeNeedingSync, excludeInactiveDays, t) ==
  LET retryable == getRetryableRepos(repos)
      pending == getPendingRepos(repos)
      needingSync == IF includeNeedingSync
                     THEN getReposNeedingSync(repos, excludeInactiveDays, t)
                     ELSE <<>>
      combined == pending \o retryable \o needingSync
  IN Slice(combined, maxCount)

getReposToProcess(repos, maxCount, includeNeedingSync, excludeInactiveDays, t) ==
  LET retryable == getRetryableRepos(repos)
      pending == getPendingRepos(repos)
      needingSync == IF includeNeedingSync
                     THEN getReposNeedingSync(repos, excludeInactiveDays, t)
                     ELSE <<>>
      combined == retryable \o pending \o needingSync
  IN Slice(combined, maxCount)

(* -------------------------- merge-states.ts --------------------------- *)
\* MigrationStateSchema.parse(JSON.parse(content)) of one record: the keys
\* with defaults are always set, an optional key only when the file has it
\* faulty variant: only the status of the batch record is taken over
Parsed_StatusOnly(r) == [f \in {"status"} |-> r[f]]

Parsed(r) ==
  [f \in {g \in DOMAIN r :
            \/ g \in {"name", "status", "attemptCount", "phases"}
            \/ r[g] # None} |-> r[f]]

\* faulty variant: a canonical record without lastAttempt is never replaced
\* by one that is not completed
Wins_NeedsBothAttempts(canonical, repoState) ==
  \/ ~Has(canonical, repoState.name)
  \/ repoState.status = "completed"
  \/ /\ IsSome(repoState.lastAttempt)
     /\ IsSome(getRepoState(canonical, repoState.name).lastAttempt)
     /\ Get(repoState.lastAttempt)
          > Get(getRepoState(canonical, repoState.name).lastAttempt)

\* the test of merge-states.ts, lines 51-58
Wins(canonical, repoState) ==
  \/ ~Has(canonical, repoState.name)
  \/ repoState.status = "completed"
  \/ /\ IsSome(repoState.lastAttempt)
     /\ \/ ~IsSome(getRepoState(canonical, repoState.name).lastAttempt)
        \/ Get(repoState.lastAttempt)
             > Get(getRepoState(canonical, repoState.name).lastAttempt)

\* the loop over Object.entries(batchState.repos)
RECURSIVE MergeRepos(_, _)
MergeRepos(canonical, batch) ==
  IF batch = <<>> THEN canonical
  ELSE MergeRepos(
         IF Wins(canonical, Head(batch))
         THEN setRepoState(canonical, Head(batch).name, Parsed(Head(batch)))
         ELSE canonical,
         Tail(batch))

(* ------------------------ discover-and-batch.ts ----------------------- *)
\* `Inactive: no commits in last ${excludeInactiveDays} days`, shortened
MsgInactive == <<"I","n","a","c","t","i","v","e">>

\* filteredRepos after the activity filter (lines 66-70)
ActiveNames(filtered, excludeInactiveDays, t) ==
  {filtered[i].name : i \in
     {j \in 1..Len(filtered) :
        /\ IsSome(filtered[j].pushedAt)
        /\ Get(filtered[j].pushedAt) >= t - excludeInactiveDays}}

\* the loop over pendingRepos (lines 78-83)
RECURSIVE SkipInactive(_, _, _)
SkipInactive(repos, pendingRepos, active) ==
  IF pendingRepos = <<>> THEN repos
  ELSE SkipInactive(
         IF Head(pendingRepos) \notin active
         THEN markSkipped(repos, Head(pendingRepos), MsgInactive)
         ELSE repos,
         Tail(pendingRepos), active)

\* faulty variant: the state is rebuilt from the listing, records of
\* repositories that are not listed are gone
discoverRepos_OnlyListed(repos, filtered, excludeInactiveDays, t) ==
  addReposWithPushedAt(
    SelectSeq(repos, LAMBDA r :
                \E i \in 1..Len(filtered) : filtered[i].name = r.name),
    filtered)

\* faulty variant: failed records of inactive repositories are marked
\* skipped as well
discoverRepos_SkipsFailed(repos, filtered, excludeInactiveDays, t) ==
  LET added == addReposWithPushedAt(repos, filtered)
  IN IF excludeInactiveDays > 0
     THEN SkipInactive(added,
                       getPendingRepos(added) \o getFailedRepos(added),
                       ActiveNames(filtered, excludeInactiveDays, t))
     ELSE added

\* discoverRepos, from the filtered listing on (lines 50-90)
discoverRepos(repos, filtered, excludeInactiveDays, t) ==
  LET added == addReposWithPushedAt(repos, filtered)
  IN IF excludeInactiveDays > 0
     THEN SkipInactive(added, getPendingRepos(added),
                       ActiveNames(filtered, excludeInactiveDays, t))
     ELSE added

\* discoverRepos of the variant without pushedAt (lines 221-253)
discoverReposPlain(repos, filtered) ==
  addRepos(repos, [i \in 1..Len(filtered) |-> filtered[i].name])

(* -------------------------- repo-migrator.ts -------------------------- *)
\* faulty variant: the flag of the other phase is read
skipApiMigration_WrongFlag(currentState) ==
  currentState.phases.branchSync = TRUE

\* let skipApiMigration = currentState?.phases.apiMigration === true
skipApiMigration(currentState) == currentState.phases.apiMigration = TRUE

\* currentState?.phases.branchSync === true
skipBranchSync(currentState) == currentState.phases.branchSync = TRUE

\* the conflict test of the catch block, on the message as thrown
IsAlreadyExists(errorMessage) ==
  \/ includes(errorMessage, KwAlreadyExists)
  \/ includes(errorMessage, Kw409)

\* What a segment of migrateRepo does to the StateManager: the new
\* in-memory repos, whether stateManager.save() is awaited, and whether
\* migrateRepo returns (done) or goes on to phase 2.

\* faulty variant: the phase is not marked when the target exists
OnExists_NoMark(repos, repoName) ==
  [state |-> repos, save |-> FALSE, done |-> FALSE]

\* repoExists returned true
OnExists(repos, repoName) ==
  [state |-> markPhaseComplete(repos, repoName, "apiMigration"),
   save |-> FALSE, done |-> FALSE]

\* codebergClient.migrateRepo resolved
OnMigrated(repos, repoName) ==
  [state |-> markPhaseComplete(repos, repoName, "apiMigration"),
   save |-> TRUE, done |-> FALSE]

\* faulty variant: the return after markFailed and save is missing
OnMigrateError_NoReturn(repos, repoName, errorMessage) ==
  IF IsAlreadyExists(errorMessage)
  THEN [state |-> markPhaseComplete(repos, repoName, "apiMigration"),
        save |-> FALSE, done |-> FALSE]
  ELSE [state |-> markFailed(repos, repoName, errorMessage,
                             classifyError(errorMessage)),
        save |-> TRUE, done |-> FALSE]

\* codebergClient.migrateRepo threw
OnMigrateError(repos, repoName, errorMessage) ==
  IF IsAlreadyExists(errorMessage)
  THEN [state |-> markPhaseComplete(repos, repoName, "apiMigration"),
        save |-> FALSE, done |-> FALSE]
  ELSE [state |-> markFailed(repos, repoName, errorMessage,
                             classifyError(errorMessage)),
        save |-> TRUE, done |-> TRUE]

\* faulty variant: the failure of the sync is not saved
OnSyncError_NoSave(repos, repoName, errorMessage) ==
  [state |-> markFailed(repos, repoName, errorMessage,
                        classifyError(errorMessage)),
   save |-> FALSE, done |-> TRUE]

\* faulty variant: the failure of the sync is always recorded as transient
OnSyncError_FixedType(repos, repoName, errorMessage) ==
  [state |-> markFailed(repos, repoName, errorMessage, "transient"),
   save |-> TRUE, done |-> TRUE]

\* syncBranches returned success: false (it catches every error itself)
OnSyncError(repos, repoName, errorMessage) ==
  [state |-> markFailed(repos, repoName, errorMessage,
                        classifyError(errorMessage)),
   save |-> TRUE, done |-> TRUE]

\* syncBranches returned success: true, then "All phases completed"
OnSynced(repos, repoName, t) ==
  [state |-> markCompleted(
               markPhaseComplete(repos, repoName, "branchSync"),
               repoName, t),
   save |-> TRUE, done |-> TRUE]

\* phase 2 skipped, then "All phases completed"
OnSyncSkipped(repos, repoName, t) ==
  [state |-> markCompleted(repos, repoName, t),
   save |-> TRUE, done |-> TRUE]

\* messages the remote calls are made to fail with
ExistsErrors == {Msg503}
MigrateErrors == {Msg409, MsgConflict, Msg404, MsgAlreadyExists}
SyncErrors == {Msg503, Msg404}

(* ------------------------------- state -------------------------------- *)
VARIABLES
  now,          \* the wall clock
  mainFile,     \* the canonical state file (STATE_PATH of discovery, merge)
  batchFile,    \* the state file of a batch job
  statePath,    \* which file the running process loads and saves
  state,        \* StateManager.state.repos of the running process
  pc,           \* where the running process is
  work,         \* reposToMigrate not yet processed
  repoName,     \* the repository migrateRepo is running for
  entryState,   \* its record when migrateRepo was entered, if it had one
  currentState, \* const currentState of migrateRepo
  calls,        \* the collaborator calls made by this run of migrateRepo
  attemptNumber,  \* the attempts made of the remote call in flight
  reposToMigrate, \* the work list of index main
  failed,       \* the results of this run with success: false
  exitCode,     \* the exit code of the process that has just ended
  batchDir,     \* the batch state files in BATCH_STATES_DIR
  content,      \* what is on disk at the statePath of a StateManager
  loaded,       \* what its load() did
  message,      \* an error message
  errorType,    \* what classifyError made of it
  batcher,      \* the locals of discover-and-batch main and createBatches
  output,       \* what discover-and-batch main wrote to OUTPUT_PATH
  source,       \* the source repository: its content and its pushed_at
  mirror        \* the content the last mirror clone read, if there was one

vars == <<now, mainFile, batchFile, statePath, state, pc, work, repoName,
          entryState, currentState, calls, attemptNumber, reposToMigrate,
          failed, exitCode, batchDir, content, loaded, message, errorType,
          batcher, output, source, mirror>>

files == <<mainFile, batchFile>>
run == <<repoName, entryState, currentState, calls>>
loop == <<reposToMigrate, failed, exitCode>>

\* what the pipeline of one batch leaves alone: the directory of several
\* batch files, and the inputs and results of load and classifyError taken
\* on their own
aside == <<batchDir, content, loaded, message, errorType, batcher, output,
           source, mirror>>

\* the file at statePath
File(path) == IF path = "main" THEN mainFile ELSE batchFile

\* await stateManager.save(): writeFile(statePath, JSON.stringify(state))
save(repos) ==
  /\ mainFile' = IF statePath = "main" THEN repos ELSE mainFile
  /\ batchFile' = IF statePath = "batch" THEN repos ELSE batchFile

\* the sequences of distinct names of length at most n
RECURSIVE DistinctSeqs(_, _)
DistinctSeqs(S, n) ==
  IF n = 0 THEN {<<>>}
  ELSE LET shorter == DistinctSeqs(S, n - 1)
       IN shorter \cup
          UNION {{Append(q, x) :
                    x \in S \ {q[i] : i \in 1..Len(q)}} : q \in shorter}

\* what listPublicRepos returns after the include and exclude filters
Listings(t) ==
  UNION {
    {[i \in 1..Len(q) |-> [name |-> q[i], pushedAt |-> pa[i]]] :
       pa \in [1..Len(q) -> {None} \cup {Some(u) : u \in 0..t}]} :
    q \in DistinctSeqs(Names, Cardinality(Names))}

Init ==
  /\ now = 0
  /\ mainFile = <<>>
  /\ batchFile = <<>>
  /\ statePath = "main"
  /\ state = <<>>
  /\ pc = "stopped"
  /\ work = <<>>
  /\ repoName = ""
  /\ entryState = None
  /\ currentState = None
  /\ calls = <<>>
  /\ attemptNumber = 0
  /\ reposToMigrate = <<>>
  /\ failed = 0
  /\ exitCode = None
  /\ batchDir = <<>>
  /\ content = None
  /\ loaded = None
  /\ message = <<>>
  /\ errorType = None
  /\ batcher = None
  /\ output = None
  /\ source = [version |-> 0, pushedAt |-> 0]
  /\ mirror = None

(* ------------------------------ actions ------------------------------- *)
\* time passes
Tick ==
  /\ now < MaxTime
  /\ now' = now + 1
  /\ UNCHANGED <<files, statePath, state, pc, work, run, attemptNumber,
                 loop, aside>>

\* largest excludeInactiveDays (EXCLUDE_INACTIVE_DAYS) tried
MaxDays == 1

\* discover-and-batch main on the canonical file: load, discoverRepos, save
Discover(filtered, excludeInactiveDays) ==
  /\ pc = "stopped"
  /\ mainFile' = discoverRepos(mainFile, filtered, excludeInactiveDays, now)
  /\ UNCHANGED <<now, batchFile, statePath, state, pc, work, run,
                 attemptNumber, loop, aside>>

\* the same with the discoverRepos that calls addRepos
DiscoverPlain(filtered) ==
  /\ pc = "stopped"
  /\ mainFile' = discoverReposPlain(mainFile, filtered)
  /\ UNCHANGED <<now, batchFile, statePath, state, pc, work, run,
                 attemptNumber, loop, aside>>

\* merge-states main: load the canonical file, merge the batch file, save
Merge ==
  /\ pc = "stopped"
  /\ batchFile # <<>>
  /\ mainFile' = MergeRepos(mainFile, batchFile)
  /\ UNCHANGED <<now, batchFile, statePath, state, pc, work, run,
                 attemptNumber, loop, aside>>

\* the batch state files of a finished pipeline run are cleared away
DropBatch ==
  /\ pc = "stopped"
  /\ batchFile # <<>>
  /\ batchFile' = <<>>
  /\ UNCHANGED <<now, mainFile, statePath, state, pc, work, run,
                 attemptNumber, loop, aside>>

\* index main without REPO_LIST on the canonical file:
\* load, getReposToProcess(config.maxParallelRepos)
StartFromState(maxParallelRepos) ==
  /\ pc = "stopped"
  /\ batchFile = <<>>
  /\ statePath' = "main"
  /\ state' = mainFile
  /\ work' = getReposToProcess(mainFile, maxParallelRepos, FALSE, 0, now)
  /\ reposToMigrate' = work'
  /\ failed' = 0
  /\ pc' = "loop"
  /\ UNCHANGED <<now, files, run, attemptNumber, exitCode, aside>>

\* index main with REPO_LIST on the canonical file
StartFromList(repoList) ==
  /\ pc = "stopped"
  /\ batchFile = <<>>
  /\ statePath' = "main"
  /\ state' = mainFile
  /\ work' = repoList
  /\ reposToMigrate' = work'
  /\ failed' = 0
  /\ pc' = "loop"
  /\ UNCHANGED <<now, files, run, attemptNumber, exitCode, aside>>

\* a batch job: index main with REPO_LIST a batch that discover-and-batch
\* main cut out of getReposToProcess(maxBatches * batchSize, enableSync,
\* excludeInactiveDays), and with STATE_PATH a file of its own, which is
\* a copy of the canonical file or does not exist yet (fresh)
StartBatch(maxCount, enableSync, excludeInactiveDays, fresh) ==
  /\ pc = "stopped"
  /\ batchFile' = IF fresh THEN <<>> ELSE mainFile
  /\ statePath' = "batch"
  /\ state' = batchFile'
  /\ work' = getReposToProcess(mainFile, maxCount, enableSync,
                               excludeInactiveDays, now)
  /\ work' # <<>>
  /\ reposToMigrate' = work'
  /\ failed' = 0
  /\ pc' = "loop"
  /\ UNCHANGED <<now, mainFile, run, attemptNumber, exitCode, aside>>

\* githubClient.getRepo returned null: continue
GetRepoMissing ==
  /\ pc = "loop"
  /\ work # <<>>
  /\ work' = Tail(work)
  /\ UNCHANGED <<now, files, statePath, state, pc, run, attemptNumber,
                 loop, aside>>

\* faulty variant: the save after markInProgress is missing
Enter_NoSave ==
  /\ pc = "loop"
  /\ work # <<>>
  /\ LET name == Head(work)
         marked == markInProgress(state, name, now)
     IN /\ Has(state, name)
             => getRepoState(state, name).attemptCount < MaxAttempts
        /\ entryState' = IF Has(state, name)
                         THEN Some(getRepoState(state, name)) ELSE None
        /\ state' = marked
        /\ currentState' = Some(getRepoState(marked, name))
        /\ repoName' = name
  /\ calls' = <<>>
  /\ work' = Tail(work)
  /\ pc' = "phase1"
  /\ UNCHANGED <<now, files, statePath, attemptNumber, loop, aside>>

\* migrateRepo up to its first await: markInProgress, save, currentState
Enter ==
  /\ pc = "loop"
  /\ work # <<>>
  /\ LET name == Head(work)
         marked == markInProgress(state, name, now)
     IN /\ Has(state, name)
             => getRepoState(state, name).attemptCount < MaxAttempts
        /\ entryState' = IF Has(state, name)
                         THEN Some(getRepoState(state, name)) ELSE None
        /\ state' = marked
        /\ save(marked)
        /\ currentState' = Some(getRepoState(marked, name))
        /\ repoName' = name
  /\ calls' = <<>>
  /\ work' = Tail(work)
  /\ pc' = "phase1"
  /\ UNCHANGED <<now, statePath, attemptNumber, loop, aside>>

\* "[Phase 1]": skip, or call codebergClient.repoExists
Phase1 ==
  /\ pc = "phase1"
  /\ IF skipApiMigration(Get(currentState))
     THEN pc' = "phase2" /\ calls' = calls /\ attemptNumber' = 0
     ELSE /\ pc' = "exists"
          /\ calls' = Append(calls, "repoExists")
          /\ attemptNumber' = 1
  /\ UNCHANGED <<now, files, statePath, state, work, repoName, entryState,
                 currentState, loop, aside>>

\* migrateRepo returns success: false where it has just called markFailed,
\* and success: true where it has just called markCompleted
Succeeded(repos, name) == getRepoState(repos, name).status # "failed"

\* the effect of a segment of migrateRepo; when migrateRepo returns, index
\* main pushes its result
Apply(out) ==
  /\ state' = out.state
  /\ IF out.save THEN save(out.state) ELSE UNCHANGED files
  /\ pc' = IF out.done THEN "loop" ELSE "phase2"
  /\ attemptNumber' = 0
  /\ failed' = IF out.done /\ ~Succeeded(out.state, repoName)
                THEN failed + 1 ELSE failed
  /\ UNCHANGED <<now, statePath, work, run, reposToMigrate, exitCode,
                 aside>>

\* the process ends: its memory is gone, the files stay
Stop ==
  /\ pc' = "stopped"
  /\ statePath' = "main"
  /\ state' = <<>>
  /\ work' = <<>>
  /\ repoName' = ""
  /\ entryState' = None
  /\ currentState' = None
  /\ calls' = <<>>
  /\ attemptNumber' = 0
  /\ reposToMigrate' = <<>>
  /\ failed' = 0
  /\ exitCode' = None
  /\ UNCHANGED <<now, files, aside>>

ExistsTrue ==
  /\ pc = "exists"
  /\ Apply(OnExists(state, repoName))

ExistsFalse ==
  /\ pc = "exists"
  /\ pc' = "migrate"
  /\ calls' = Append(calls, "migrateRepo")
  /\ attemptNumber' = 1
  /\ UNCHANGED <<now, files, statePath, state, work, repoName, entryState,
                 currentState, loop, aside>>

\* repoExists rethrows a response that is not ok and not 404: migrateRepo
\* has no try around the call, the rejection leaves migrateRepo and the loop
ExistsThrows(errorMessage) ==
  /\ pc = "exists"
  /\ pc' = "rejected"
  /\ attemptNumber' = 0
  /\ UNCHANGED <<now, files, statePath, state, work, run, loop, aside>>

\* main().catch: console.error("Fatal error:", error); process.exit(1)
FatalError ==
  /\ pc = "rejected"
  /\ pc' = "exited"
  /\ exitCode' = Some(1)
  /\ UNCHANGED <<now, files, statePath, state, work, run, attemptNumber,
                 reposToMigrate, failed, aside>>

MigrateOk ==
  /\ pc = "migrate"
  /\ Apply(OnMigrated(state, repoName))

MigrateThrows(errorMessage) ==
  /\ pc = "migrate"
  /\ Apply(OnMigrateError(state, repoName, errorMessage))

\* "[Phase 2]": skip and complete, or call syncBranches (mirror clone)
Phase2 ==
  /\ pc = "phase2"
  /\ IF skipBranchSync(Get(currentState))
     THEN Apply(OnSyncSkipped(state, repoName, now))
     ELSE /\ pc' = "clone"
          /\ calls' = Append(calls, "syncBranches")
          /\ attemptNumber' = 1
          /\ UNCHANGED <<now, files, statePath, state, work, repoName,
                         entryState, currentState, loop, aside>>

\* pRetry(..., {retries: 3}) of the mirror clone and of the push
retries == 3

\* pRetry: an attempt failed and retries are left, the call is made again
RetryLeft(attempt) == attempt <= retries

\* syncBranches: the mirror clone succeeded, the push is next
CloneOk ==
  /\ pc = "clone"
  /\ pc' = "push"
  /\ attemptNumber' = 1
  /\ UNCHANGED <<now, files, statePath, state, work, run, loop, aside>>

\* an attempt of the clone failed, pRetry makes the next one
CloneRetry ==
  /\ pc = "clone"
  /\ RetryLeft(attemptNumber)
  /\ attemptNumber' = attemptNumber + 1
  /\ UNCHANGED <<now, files, statePath, state, pc, work, run, loop, aside>>

\* the last attempt of the clone failed: pRetry rejects, syncBranches
\* returns success: false
CloneFails(errorMessage) ==
  /\ pc = "clone"
  /\ ~RetryLeft(attemptNumber)
  /\ Apply(OnSyncError(state, repoName, errorMessage))

PushOk ==
  /\ pc = "push"
  /\ Apply(OnSynced(state, repoName, now))

PushRetry ==
  /\ pc = "push"
  /\ RetryLeft(attemptNumber)
  /\ attemptNumber' = attemptNumber + 1
  /\ UNCHANGED <<now, files, statePath, state, pc, work, run, loop, aside>>

PushFails(errorMessage) ==
  /\ pc = "push"
  /\ ~RetryLeft(attemptNumber)
  /\ Apply(OnSyncError(state, repoName, errorMessage))

\* index main is through its loop (or had nothing to migrate and returned):
\* process.exit(1) if any result failed, else the process ends with 0
Finish ==
  /\ pc = "loop"
  /\ work = <<>>
  /\ pc' = "exited"
  /\ exitCode' = Some(IF failed > 0 THEN 1 ELSE 0)
  /\ UNCHANGED <<now, files, statePath, state, work, run, attemptNumber,
                 reposToMigrate, failed, aside>>

\* the process that exited is gone
Exited ==
  /\ pc = "exited"
  /\ Stop

\* the process is killed
Crash ==
  /\ pc \notin {"stopped", "exited"}
  /\ Stop

Next ==
  \/ Tick
  \/ \E days \in 0..MaxDays : \E filtered \in Listings(now) :
       Discover(filtered, days)
  \/ \E filtered \in Listings(now) : DiscoverPlain(filtered)
  \/ Merge
  \/ DropBatch
  \/ \E n \in 0..MaxCount : StartFromState(n)
  \/ \E repoList \in DistinctSeqs(Names, MaxCount) \ {<<>>} :
       StartFromList(repoList)
  \/ \E n \in 1..MaxCount : \E enableSync \in BOOLEAN :
       \E days \in 0..MaxDays : \E fresh \in BOOLEAN :
         StartBatch(n, enableSync, days, fresh)
  \/ GetRepoMissing
  \/ Enter
  \/ Phase1
  \/ ExistsTrue
  \/ ExistsFalse
  \/ \E m \in ExistsErrors : ExistsThrows(m)
  \/ FatalError
  \/ MigrateOk
  \/ \E m \in MigrateErrors : MigrateThrows(m)
  \/ Phase2
  \/ CloneOk
  \/ CloneRetry
  \/ \E m \in SyncErrors : CloneFails(m)
  \/ PushOk
  \/ PushRetry
  \/ \E m \in SyncErrors : PushFails(m)
  \/ Finish
  \/ Exited
  \/ Crash

Spec == Init /\ [][Next]_vars

(* ------------------------ helpers of the claims ----------------------- *)
\* the positions inside migrateRepo
RunPcs == {"phase1", "exists", "migrate", "phase2", "clone", "push"}

\* migrateRepo has returned for repoName and the loop has not moved on
Returned == pc = "loop" /\ repoName # ""

\* the collaborator was called in this run of migrateRepo
Called(c) == \E i \in 1..Len(calls) : calls[i] = c

\* the last saved snapshot of the running process, now and after the step
Persisted == File(statePath)
PersistedNext == IF statePath = "main" THEN mainFile' ELSE batchFile'

\* attemptCount of a name, 0 when there is no record
Count(repos, name) ==
  IF Has(repos, name) THEN getRepoState(repos, name).attemptCount ELSE 0

\* the record of the entity was there with these flags when migrateRepo
\* was entered
EnteredWith(api, sync) ==
  /\ IsSome(entryState)
  /\ Get(entryState).phases = [apiMigration |-> api, branchSync |-> sync]

(* ------------------------------- claims ------------------------------- *)
\* C1: a run of migrateRepo entered for an entity whose record has
\* phases.apiMigration = true and phases.branchSync = false calls no
\* collaborator but syncBranches, and it does call syncBranches before it
\* returns.
C1_IdempotentResume ==
  (repoName # "" /\ EnteredWith(TRUE, FALSE)) =>
    /\ \A i \in 1..Len(calls) : calls[i] = "syncBranches"
    /\ (pc \in {"clone", "push"} \/ Returned) => calls = <<"syncBranches">>

\* C1 witness: such a run has returned, having called syncBranches only
C1_Witness ==
  /\ Returned
  /\ EnteredWith(TRUE, FALSE)
  /\ calls = <<"syncBranches">>

\* C2: however phase 1 succeeds, when syncBranches is started the last
\* saved snapshot shows the entity with phases.apiMigration = true and
\* status = in_progress. (Nothing is saved between the start of
\* syncBranches and the end of the mirror clone, so the snapshot at
\* pc = "clone" is the one at the start.)
C2_CheckpointPersistence ==
  (pc = "clone" /\ Called("repoExists")) =>
    /\ Has(Persisted, repoName)
    /\ getRepoState(Persisted, repoName).phases.apiMigration = TRUE
    /\ getRepoState(Persisted, repoName).status = "in_progress"

\* C3: when the process is killed inside migrateRepo, the entity is in the
\* work list getReposToProcess gives on the snapshot left behind (with room
\* for every entity, and with the resync entries included).
C3_CrashResume ==
  [][(Crash /\ pc \in RunPcs) =>
       \E i \in 1..Len(getReposToProcess(PersistedNext, Cardinality(Names),
                                         TRUE, 0, now)) :
         getReposToProcess(PersistedNext, Cardinality(Names),
                           TRUE, 0, now)[i] = repoName]_vars

\* C4: a failed collaborator call (the exists check, the migrate call
\* unless it is a conflict, the content sync) leaves the entity saved as
\* failed with the message and errorType = classifyError(message), and the
\* loop of the run goes on.
C4_FailuresRecorded ==
  [][\A m \in ExistsErrors \cup MigrateErrors \cup SyncErrors :
       (\/ ExistsThrows(m)
        \/ (MigrateThrows(m) /\ ~IsAlreadyExists(m))
        \/ CloneFails(m)
        \/ PushFails(m)) =>
         /\ Has(PersistedNext, repoName)
         /\ getRepoState(PersistedNext, repoName).status = "failed"
         /\ getRepoState(PersistedNext, repoName).error = Some(m)
         /\ getRepoState(PersistedNext, repoName).errorType
              = Some(classifyError(m))
         /\ pc' = "loop"]_vars

\* C5: when migrateRepo has run for an entity that was completed and in
\* need of a sync on entry, and has stamped it completed again (lastSyncedAt
\* advanced), syncBranches was called in that run.
C5_ResyncInvokesSyncer ==
  (/\ Returned
   /\ IsSome(entryState)
   /\ NeedsSync(Get(entryState), 0, now)
   /\ getRepoState(state, repoName).status = "completed") =>
    Called("syncBranches")

\* every completed record of a snapshot has both phase flags
CompletedHasPhases(repos) ==
  \A i \in 1..Len(repos) :
    repos[i].status = "completed" =>
      repos[i].phases = [apiMigration |-> TRUE, branchSync |-> TRUE]

\* C6: in every state reached by discovery, migrateRepo runs and merges from
\* the empty snapshot, a completed entity has both phase flags true: in the
\* canonical file, in the batch file and in the memory of the running
\* process.
C6_CompletedHasBothPhases ==
  /\ CompletedHasPhases(mainFile)
  /\ CompletedHasPhases(batchFile)
  /\ CompletedHasPhases(state)

\* a completed record that a batch job wrote is in the canonical file
C6_Witness ==
  /\ pc = "stopped"
  /\ \E i \in 1..Len(batchFile) :
       /\ batchFile[i].status = "completed"
       /\ Has(mainFile, batchFile[i].name)
       /\ getRepoState(mainFile, batchFile[i].name) = batchFile[i]

\* every phase flag that is true in old is true in new
FlagsKept(old, new) ==
  \A i \in 1..Len(old) : \A phase \in {"apiMigration", "branchSync"} :
    old[i].phases[phase] =>
      /\ Has(new, old[i].name)
      /\ getRepoState(new, old[i].name).phases[phase]

\* a step of discover-and-batch main that changes the canonical file
DiscoveryStep ==
  /\ pc = "stopped"
  /\ mainFile' # mainFile
  /\ \/ \E days \in 0..MaxDays : \E filtered \in Listings(now) :
          Discover(filtered, days)
     \/ \E filtered \in Listings(now) : DiscoverPlain(filtered)

\* a step of the running index main that leaves it running
WorkerStep == pc # "stopped" /\ pc' # "stopped"

\* C7: a phase flag that is true stays true over every step of migrateRepo,
\* in memory and in the saved snapshot, and over every discovery step.
C7_PhaseFlagsMonotone ==
  [][/\ WorkerStep => /\ FlagsKept(state, state')
                      /\ FlagsKept(Persisted, PersistedNext)
     /\ DiscoveryStep => FlagsKept(mainFile, mainFile')]_vars

\* a second run of migrateRepo has failed an entity whose apiMigration flag
\* was true on entry
C7_Witness ==
  /\ Returned
  /\ EnteredWith(TRUE, FALSE)
  /\ getRepoState(state, repoName).status = "failed"
  /\ getRepoState(Persisted, repoName).phases.apiMigration = TRUE

\* C8: entering migrateRepo adds exactly one to attemptCount of the entity,
\* in memory and in the saved snapshot; no other step of migrateRepo and no
\* discovery step changes an attemptCount.
C8_AttemptCount ==
  [][/\ Enter => /\ Count(state', Head(work)) = Count(state, Head(work)) + 1
                 /\ Count(PersistedNext, Head(work))
                      = Count(state, Head(work)) + 1
                 /\ \A n \in Names \ {Head(work)} :
                      Count(state', n) = Count(state, n)
     /\ (WorkerStep /\ ~Enter) =>
          \A n \in Names : /\ Count(state', n) = Count(state, n)
                           /\ Count(PersistedNext, n) <= Count(state, n)
                           /\ Count(PersistedNext, n) >= Count(Persisted, n)
     /\ DiscoveryStep =>
          \A n \in Names : Count(mainFile', n) = Count(mainFile, n)]_vars

\* migrateRepo was entered a second time
C8_Witness ==
  /\ pc = "phase1"
  /\ IsSome(entryState)
  /\ Get(entryState).attemptCount = 1
  /\ Count(state, repoName) = 2
  /\ Count(Persisted, repoName) = 2

\* attemptCount of the record migrateRepo was entered with
EntryCount == IF IsSome(entryState) THEN Get(entryState).attemptCount ELSE 0

\* the record of the running entity is in_progress with the count of this
\* run
EntryMarked(repos) ==
  /\ Has(repos, repoName)
  /\ getRepoState(repos, repoName).status = "in_progress"
  /\ getRepoState(repos, repoName).attemptCount = EntryCount + 1
  /\ IsSome(getRepoState(repos, repoName).lastAttempt)

\* C9: when migrateRepo makes its first collaborator call, the entity is
\* in_progress with attemptCount one more than on entry, in memory and in
\* the saved snapshot.
C9_EntryCheckpoint ==
  [][(calls = <<>> /\ calls' # <<>>) =>
       /\ EntryMarked(state)
       /\ EntryMarked(Persisted)]_vars

\* the first call of a run is out and the saved snapshot has the entry
C9_Witness ==
  /\ pc = "exists"
  /\ calls = <<"repoExists">>
  /\ EntryMarked(Persisted)

\* C10: when the migrate call fails with a message that is not taken as a
\* conflict, the entity is failed with the message and its class, the
\* snapshot with that record is saved, migrateRepo returns without calling
\* syncBranches, and phases.apiMigration stays false.
C10_MigrateFailureStops ==
  [][\A m \in MigrateErrors :
       (MigrateThrows(m) /\ ~IsAlreadyExists(m)) =>
         /\ getRepoState(state', repoName).status = "failed"
         /\ getRepoState(state', repoName).error = Some(m)
         /\ getRepoState(state', repoName).errorType
              = Some(classifyError(m))
         /\ getRepoState(state', repoName).phases.apiMigration = FALSE
         /\ PersistedNext = state'
         /\ pc' = "loop"
         /\ ~\E i \in 1..Len(calls') : calls'[i] = "syncBranches"]_vars

\* migrateRepo has returned after a migrate call that failed with 404
C10_Witness ==
  /\ Returned
  /\ calls = <<"repoExists", "migrateRepo">>
  /\ getRepoState(Persisted, repoName).status = "failed"
  /\ getRepoState(Persisted, repoName).error = Some(Msg404)
  /\ getRepoState(Persisted, repoName).errorType = Some("permanent")
  /\ getRepoState(Persisted, repoName).phases.apiMigration = FALSE

\* 'already exists' or 409 in the lower-cased message, the way the
\* recoverable rule of classifyError reads it
IndicatesConflict(m) ==
  \/ includes(toLowerCase(m), KwAlreadyExists)
  \/ includes(toLowerCase(m), Kw409)

\* C11: a migrate call that fails with a message whose lower-cased text has
\* 'already exists' or 409 marks phase 1 complete and goes on to phase 2; one
\* that fails with another recoverable message leaves phase 1 unmarked and
\* the entity failed with errorType = recoverable.
C11_ConflictFolded ==
  [][\A m \in MigrateErrors :
       MigrateThrows(m) =>
         IF IndicatesConflict(m)
         THEN /\ pc' = "phase2"
              /\ getRepoState(state', repoName).phases.apiMigration = TRUE
         ELSE classifyError(m) = "recoverable" =>
                /\ pc' = "loop"
                /\ getRepoState(state', repoName).status = "failed"
                /\ getRepoState(state', repoName).errorType
                     = Some("recoverable")
                /\ getRepoState(state', repoName).phases.apiMigration
                     = FALSE]_vars

\* C12: when repoExists answers true for an entity whose apiMigration flag
\* is false, migrateRepo sets the flag and goes to phase 2 with no migrate
\* call; from phase 2 on the only call it can still make is syncBranches.
C12_ExistsShortCircuit ==
  [][/\ ExistsTrue =>
          /\ Get(currentState).phases.apiMigration = FALSE
          /\ getRepoState(state', repoName).phases.apiMigration = TRUE
          /\ pc' = "phase2"
          /\ calls' = <<"repoExists">>
     /\ pc \in {"phase2", "clone", "push"} =>
          calls' \in {calls, Append(calls, "syncBranches"), <<>>}]_vars

\* the sync has started after an exists check that answered true
C12_Witness ==
  /\ pc = "clone"
  /\ calls = <<"repoExists", "syncBranches">>
  /\ ~EnteredWith(TRUE, FALSE)
  /\ getRepoState(state, repoName).phases.apiMigration = TRUE

\* C13: when the content sync fails, the saved record is failed with the
\* message and its class, phases.apiMigration true and phases.branchSync
\* false, and migrateRepo returns; a run entered for a record left that way
\* makes no call but syncBranches.
C13_SyncFailureKeepsPhase1 ==
  [][/\ \A m \in SyncErrors :
          (CloneFails(m) \/ PushFails(m)) =>
            /\ Has(PersistedNext, repoName)
            /\ getRepoState(PersistedNext, repoName).status = "failed"
            /\ getRepoState(PersistedNext, repoName).error = Some(m)
            /\ getRepoState(PersistedNext, repoName).errorType
                 = Some(classifyError(m))
            /\ getRepoState(PersistedNext, repoName).phases
                 = [apiMigration |-> TRUE, branchSync |-> FALSE]
            /\ pc' = "loop"
     /\ (/\ repoName # ""
         /\ EnteredWith(TRUE, FALSE)
         /\ Get(entryState).status = "failed") =>
          /\ calls \in {<<>>, <<"syncBranches">>}
          /\ pc \notin {"exists", "migrate"}]_vars

\* a run entered for a record whose sync had failed has failed in the sync
\* again
C13_Witness ==
  /\ Returned
  /\ EnteredWith(TRUE, FALSE)
  /\ Get(entryState).status = "failed"
  /\ calls = <<"syncBranches">>
  /\ getRepoState(Persisted, repoName).status = "failed"
  /\ getRepoState(Persisted, repoName).phases
       = [apiMigration |-> TRUE, branchSync |-> FALSE]

\* the record is completed at time t with nothing left of a failure
CompletedAt(r, t) ==
  /\ r.status = "completed"
  /\ r.phases = [apiMigration |-> TRUE, branchSync |-> TRUE]
  /\ r.completedAt = Some(t)
  /\ r.lastSyncedAt = Some(t)
  /\ r.error = None
  /\ r.errorType = None

\* C14: when the sync succeeds (or phase 2 is skipped) and migrateRepo
\* reaches "All phases completed", the saved record is completed with both
\* flags, completedAt = lastSyncedAt = now, and no error or errorType.
C14_CompletionRecord ==
  [][(PushOk \/ (pc = "phase2" /\ pc' = "loop")) =>
       /\ Has(PersistedNext, repoName)
       /\ CompletedAt(getRepoState(PersistedNext, repoName), now)
       /\ PersistedNext = state']_vars

\* an entity that had failed before was retried and is completed
C14_Witness ==
  /\ Returned
  /\ IsSome(entryState)
  /\ Get(entryState).status = "failed"
  /\ IsSome(Get(entryState).error)
  /\ Called("syncBranches")
  /\ CompletedAt(getRepoState(Persisted, repoName), now)

(* ----------------- the selectors on arbitrary snapshots ---------------- *)
\* The state file is read with MigrationStateSchema.parse, so a run can
\* start from any snapshot the schema admits (a file of an earlier version
\* has completed records without lastSyncedAt). SpecSelect draws the
\* snapshot from such records and applies the selector and discovery to it.

\* the names of the snapshot, in insertion order
SelOrder == <<"a", "b", "c">>

\* the records of a snapshot, before the name is filled in
SelKinds ==
  {[NewRepoState("") EXCEPT !.status = s] :
     s \in {"pending", "in_progress", "skipped"}}
  \cup
  {[NewRepoState("") EXCEPT !.status = "failed", !.errorType = e] :
     e \in {None, Some("transient"), Some("recoverable"),
            Some("permanent")}}
  \cup
  {[NewRepoState("") EXCEPT !.status = "completed",
                            !.phases = [apiMigration |-> TRUE,
                                        branchSync |-> TRUE],
                            !.lastSyncedAt = ls, !.githubPushedAt = pa] :
     ls \in {None} \cup {Some(u) : u \in 0..MaxTime},
     pa \in {None} \cup {Some(u) : u \in 0..MaxTime}}

\* the kinds the records after the first are drawn from: of the completed
\* ones, one that was pushed to after its last sync and one that was not
SelKindsCoarse ==
  {k \in SelKinds :
     k.status = "completed" =>
       \/ k.lastSyncedAt = Some(0) /\ k.githubPushedAt = Some(MaxTime)
       \/ k.lastSyncedAt = Some(MaxTime) /\ k.githubPushedAt = Some(0)}

SelSnapshots ==
  UNION {{[i \in 1..n |-> [k[i] EXCEPT !.name = SelOrder[i]]] :
            k \in {f \in [1..n -> SelKinds] :
                     \A i \in 2..n : f[i] \in SelKindsCoarse}} :
         n \in 0..Len(SelOrder)}

SelectInit ==
  /\ now = MaxTime
  /\ mainFile \in SelSnapshots
  /\ batchFile = <<>>
  /\ statePath = "main"
  /\ state = <<>>
  /\ pc = "stopped"
  /\ work = <<>>
  /\ repoName = ""
  /\ entryState = None
  /\ currentState = None
  /\ calls = <<>>
  /\ attemptNumber = 0
  /\ reposToMigrate = <<>>
  /\ failed = 0
  /\ exitCode = None
  /\ batchDir = <<>>
  /\ content = None
  /\ loaded = None
  /\ message = <<>>
  /\ errorType = None
  /\ batcher = None
  /\ output = None
  /\ source = [version |-> 0, pushedAt |-> 0]
  /\ mirror = None

\* stateManager.load(), then getReposToProcess as discover-and-batch main
\* and index main call it
SelectWork(maxCount, includeNeedingSync, excludeInactiveDays) ==
  /\ pc = "stopped"
  /\ work' = getReposToProcess(mainFile, maxCount, includeNeedingSync,
                               excludeInactiveDays, now)
  /\ pc' = "selected"
  /\ UNCHANGED <<now, files, statePath, state, run, attemptNumber, loop,
                 aside>>

\* the process that selected ends
SelectDone ==
  /\ pc = "selected"
  /\ Stop

SelectNext ==
  \/ \E maxCount \in 0..(Len(SelOrder) + 1) :
       \E includeNeedingSync \in BOOLEAN : \E days \in 0..MaxDays :
         SelectWork(maxCount, includeNeedingSync, days)
  \/ \E days \in 0..MaxDays : \E filtered \in Listings(now) :
       Discover(filtered, days)
  \/ \E filtered \in Listings(now) : DiscoverPlain(filtered)
  \/ SelectDone

SpecSelect == SelectInit /\ [][SelectNext]_vars

\* the names of the records at the positions I, in the order of the
\* snapshot
InOrder(repos, I) ==
  [k \in 1..Cardinality(I) |->
     repos[CHOOSE i \in I : Cardinality({j \in I : j < i}) = k - 1].name]

\* the work list as the selection rule words it: retryable failures, then
\* pending, then (if asked for) those needing sync, cut to maxCount
SelectionRule(repos, maxCount, includeSync, cutoff, t) ==
  LET retryable ==
        InOrder(repos, {i \in 1..Len(repos) :
          /\ repos[i].status = "failed"
          /\ repos[i].errorType \in {Some("transient"),
                                     Some("recoverable")}})
      pending ==
        InOrder(repos, {i \in 1..Len(repos) : repos[i].status = "pending"})
      syncing ==
        IF includeSync
        THEN InOrder(repos, {i \in 1..Len(repos) :
                               NeedsSync(repos[i], cutoff, t)})
        ELSE <<>>
      all == retryable \o pending \o syncing
      n == IF maxCount < Len(all) THEN maxCount ELSE Len(all)
  IN [i \in 1..n |-> all[i]]

IsPermanentFailure(r) ==
  r.status = "failed" /\ r.errorType = Some("permanent")

\* the name is in the list
InList(list, name) == \E i \in 1..Len(list) : list[i] = name

\* C16: an entity that is failed with errorType permanent is in
\* getFailedRepos and in no result of getReposToProcess, whatever maxCount,
\* includeSync and cutoff are; and discovery leaves it a permanent failure.
C16_PermanentNeverSelected ==
  /\ [](\A i \in 1..Len(mainFile) :
          IsPermanentFailure(mainFile[i]) =>
            /\ InList(getFailedRepos(mainFile), mainFile[i].name)
            /\ \A maxCount \in 0..(Len(SelOrder) + 1) :
                 \A includeSync \in BOOLEAN : \A cutoff \in 0..MaxDays :
                   ~InList(getReposToProcess(mainFile, maxCount,
                                             includeSync, cutoff, now),
                           mainFile[i].name))
  /\ [][DiscoveryStep =>
          \A i \in 1..Len(mainFile) :
            IsPermanentFailure(mainFile[i]) =>
              /\ Has(mainFile', mainFile[i].name)
              /\ IsPermanentFailure(
                   getRepoState(mainFile', mainFile[i].name))]_vars

\* a selection after discovery has seen the permanent failure again: others
\* are selected, it is not
C16_Witness ==
  /\ pc = "selected"
  /\ work # <<>>
  /\ Len(mainFile) >= 2
  /\ IsPermanentFailure(mainFile[1])
  /\ IsSome(mainFile[1].githubPushedAt)
  /\ ~InList(work, mainFile[1].name)

\* the names in a list
Range(list) == {list[i] : i \in 1..Len(list)}

\* no name is twice in the list
NoDuplicates(list) ==
  \A i, j \in 1..Len(list) : list[i] = list[j] => i = j

\* C17: for every snapshot the retryable, the pending and the needing-sync
\* entities are pairwise disjoint, and no name is twice in a work list of
\* getReposToProcess.
C17_SelectorSetsDisjoint ==
  /\ Range(getRetryableRepos(mainFile))
       \cap Range(getPendingRepos(mainFile)) = {}
  /\ \A cutoff \in 0..MaxDays :
       /\ Range(getRetryableRepos(mainFile))
            \cap Range(getReposNeedingSync(mainFile, cutoff, now)) = {}
       /\ Range(getPendingRepos(mainFile))
            \cap Range(getReposNeedingSync(mainFile, cutoff, now)) = {}
       /\ \A maxCount \in 0..(Len(SelOrder) + 1) :
            \A includeSync \in BOOLEAN :
              NoDuplicates(getReposToProcess(mainFile, maxCount,
                                             includeSync, cutoff, now))
  /\ NoDuplicates(work)

\* a work list with an entity of each of the three lists
C17_Witness ==
  /\ pc = "selected"
  /\ Len(work) = 3
  /\ getRetryableRepos(mainFile) # <<>>
  /\ getPendingRepos(mainFile) # <<>>
  /\ getReposNeedingSync(mainFile, 0, now) # <<>>

\* needsSync as the rules word it, for a cutoff in days at time t
NeedsSyncRule(r, cutoff, t) ==
  LET stale == /\ cutoff > 0
               /\ r.githubPushedAt # None
               /\ r.githubPushedAt[1] < t - cutoff
      legacy == r.lastSyncedAt = None /\ r.githubPushedAt # None
      newer == /\ r.lastSyncedAt # None
               /\ r.githubPushedAt # None
               /\ r.githubPushedAt[1] > r.lastSyncedAt[1]
  IN ~stale /\ (legacy \/ newer)

\* C18: getReposNeedingSync has an entity iff it is completed and needsSync
\* holds by the rules in order: not if the cutoff is set and githubPushedAt
\* is older than it; else yes if lastSyncedAt is absent and githubPushedAt
\* known; else iff githubPushedAt is known and later than lastSyncedAt.
C18_NeedsSyncRule ==
  \A cutoff \in 0..MaxDays : \A i \in 1..Len(mainFile) :
    InList(getReposNeedingSync(mainFile, cutoff, now), mainFile[i].name)
      <=> /\ mainFile[i].status = "completed"
          /\ NeedsSyncRule(mainFile[i], cutoff, now)

\* a legacy completed record with an old push: selected without a cutoff,
\* left out with one
C18_Witness ==
  /\ pc = "selected"
  /\ work = <<"a">>
  /\ mainFile[1].status = "completed"
  /\ mainFile[1].lastSyncedAt = None
  /\ mainFile[1].githubPushedAt = Some(0)
  /\ getReposNeedingSync(mainFile, MaxDays, now) = <<>>

(* --------------------- the merge on arbitrary files -------------------- *)
\* merge-states main reads whatever canonical file and batch file it is
\* given. SpecMerge draws both from records the StateManager writes and
\* applies the merge to them.

\* the names of the snapshots, in insertion order
MergeOrder == <<"a", "b">>

\* records as the StateManager leaves them: discovered with and without a
\* push time, entered, failed and completed at time u
MergeKinds(name) ==
  {NewRepoState(name),
   addReposWithPushedAt(<<>>, <<[name |-> name, pushedAt |-> Some(0)]>>)[1]}
  \cup {markInProgress(<<>>, name, u)[1] : u \in 0..MaxTime}
  \cup {markFailed(markInProgress(<<>>, name, u), name, Msg503,
                   classifyError(Msg503))[1] : u \in 0..MaxTime}
  \cup {markCompleted(markInProgress(<<>>, name, u), name, u)[1] :
          u \in 0..MaxTime}

\* the snapshots with the first n names
RECURSIVE MergeSnapshotsOfLen(_)
MergeSnapshotsOfLen(n) ==
  IF n = 0 THEN {<<>>}
  ELSE {Append(s, x) : s \in MergeSnapshotsOfLen(n - 1),
                       x \in MergeKinds(MergeOrder[n])}

MergeSnapshots == UNION {MergeSnapshotsOfLen(n) : n \in 0..Len(MergeOrder)}

MergeInit ==
  /\ now = MaxTime
  /\ mainFile \in MergeSnapshots
  /\ batchFile \in MergeSnapshots
  /\ statePath = "main"
  /\ state = <<>>
  /\ pc = "stopped"
  /\ work = <<>>
  /\ repoName = ""
  /\ entryState = None
  /\ currentState = None
  /\ calls = <<>>
  /\ attemptNumber = 0
  /\ reposToMigrate = <<>>
  /\ failed = 0
  /\ exitCode = None
  /\ batchDir = <<>>
  /\ content = None
  /\ loaded = None
  /\ message = <<>>
  /\ errorType = None
  /\ batcher = None
  /\ output = None
  /\ source = [version |-> 0, pushedAt |-> 0]
  /\ mirror = None

MergeNext == Merge \/ DropBatch

SpecMerge == MergeInit /\ [][MergeNext]_vars

\* the merged record has what every incoming record carries
Adopted(result, incoming) ==
  /\ result.status = incoming.status
  /\ result.attemptCount = incoming.attemptCount
  /\ result.phases = incoming.phases
  /\ incoming.lastAttempt # None =>
       result.lastAttempt = incoming.lastAttempt

\* the merge of the batch file into the canonical file follows the
\* replacement rule given
FollowsRule(Replaces(_, _)) ==
  LET merged == MergeRepos(mainFile, batchFile)
  IN \A i \in 1..Len(batchFile) :
       IF Replaces(mainFile, batchFile[i])
       THEN /\ Has(merged, batchFile[i].name)
            /\ Adopted(getRepoState(merged, batchFile[i].name),
                       batchFile[i])
       ELSE /\ Has(mainFile, batchFile[i].name)
            /\ getRepoState(merged, batchFile[i].name)
                 = getRepoState(mainFile, batchFile[i].name)

\* the rule as worded: no canonical record, or incoming completed, or
\* incoming lastAttempt present and later than the canonical lastAttempt
ReplacesAsWorded(canonical, incoming) ==
  \/ \A j \in 1..Len(canonical) : canonical[j].name # incoming.name
  \/ incoming.status = "completed"
  \/ \E j \in 1..Len(canonical) :
       /\ canonical[j].name = incoming.name
       /\ incoming.lastAttempt # None
       /\ canonical[j].lastAttempt # None
       /\ incoming.lastAttempt[1] > canonical[j].lastAttempt[1]

\* the rule with the case of a canonical record that was never attempted
ReplacesAmended(canonical, incoming) ==
  \/ \A j \in 1..Len(canonical) : canonical[j].name # incoming.name
  \/ incoming.status = "completed"
  \/ \E j \in 1..Len(canonical) :
       /\ canonical[j].name = incoming.name
       /\ incoming.lastAttempt # None
       /\ \/ canonical[j].lastAttempt = None
          \/ incoming.lastAttempt[1] > canonical[j].lastAttempt[1]

\* C19 as stated: the incoming record replaces the canonical one iff the
\* canonical file has no record of the name, or the incoming status is
\* completed, or the incoming lastAttempt is present and strictly later than
\* the canonical lastAttempt.
C19_MergeRuleAsStated == FollowsRule(ReplacesAsWorded)

\* C19 amended: the incoming record replaces the canonical one iff the
\* canonical file has no record of the name, or the incoming status is
\* completed, or the incoming lastAttempt is present and the canonical
\* lastAttempt is absent or strictly earlier; an incoming record without
\* lastAttempt that is not completed never replaces an existing record.
C19_MergeRule ==
  /\ FollowsRule(ReplacesAmended)
  /\ \A i \in 1..Len(batchFile) :
       (/\ batchFile[i].lastAttempt = None
        /\ batchFile[i].status # "completed"
        /\ Has(mainFile, batchFile[i].name)) =>
         getRepoState(MergeRepos(mainFile, batchFile), batchFile[i].name)
           = getRepoState(mainFile, batchFile[i].name)

\* a failed batch record was merged over a canonical record that discovery
\* had written and no run had attempted
C19_Witness ==
  /\ Len(mainFile) >= 1
  /\ Len(batchFile) >= 1
  /\ mainFile[1].status = "failed"
  /\ mainFile[1].githubPushedAt = Some(0)
  /\ mainFile[1].lastAttempt = batchFile[1].lastAttempt
  /\ batchFile[1].status = "failed"

\* C20: when an incoming record wins the merge, the merged record is the
\* incoming record, field by field; a field the incoming record does not
\* have, the merged record does not have.
C20_MergedIsIncoming ==
  \A i \in 1..Len(batchFile) :
    Wins(mainFile, batchFile[i]) =>
      getRepoState(MergeRepos(mainFile, batchFile), batchFile[i].name)
        = batchFile[i]

\* C21: an entity that is completed in the canonical file is completed in
\* the canonical file after the merge of any batch file.
C21_MergeKeepsCompleted ==
  \A i \in 1..Len(mainFile) :
    mainFile[i].status = "completed" =>
      getRepoState(MergeRepos(mainFile, batchFile),
                   mainFile[i].name).status = "completed"

(* ------------------ batch jobs on disjoint work lists ------------------ *)
\* SpecShard is one round of the pipeline with several batch jobs: every
\* job starts from a copy of the same canonical file, runs index main on a
\* REPO_LIST of its own and leaves its state file in BATCH_STATES_DIR;
\* merge-states main then merges the directory into the canonical file.

\* the REPO_LIST of each batch job
Shards == <<<<"a">>, <<"b">>>>

\* canonical files of the round: what earlier rounds wrote, before now
ShardSnapshots ==
  {s \in MergeSnapshotsOfLen(Len(MergeOrder)) :
     \A i \in 1..Len(s) :
       IsSome(s[i].lastAttempt) => Get(s[i].lastAttempt) < MaxTime}

ShardInit ==
  /\ now = MaxTime
  /\ mainFile \in ShardSnapshots
  /\ batchFile = <<>>
  /\ statePath = "main"
  /\ state = <<>>
  /\ pc = "stopped"
  /\ work = <<>>
  /\ repoName = ""
  /\ entryState = None
  /\ currentState = None
  /\ calls = <<>>
  /\ attemptNumber = 0
  /\ reposToMigrate = <<>>
  /\ failed = 0
  /\ exitCode = None
  /\ batchDir = <<>>
  /\ content = None
  /\ loaded = None
  /\ message = <<>>
  /\ errorType = None
  /\ batcher = None
  /\ output = None
  /\ source = [version |-> 0, pushedAt |-> 0]
  /\ mirror = None

\* the next batch job: index main with REPO_LIST and with STATE_PATH a copy
\* of the canonical file
StartShard ==
  /\ pc = "stopped"
  /\ batchFile = <<>>
  /\ Len(batchDir) < Len(Shards)
  /\ batchFile' = mainFile
  /\ statePath' = "batch"
  /\ state' = mainFile
  /\ work' = Shards[Len(batchDir) + 1]
  /\ reposToMigrate' = work'
  /\ failed' = 0
  /\ pc' = "loop"
  /\ UNCHANGED <<now, mainFile, run, attemptNumber, exitCode, aside>>

\* the state file of the batch job that ended goes to BATCH_STATES_DIR
Upload ==
  /\ pc = "stopped"
  /\ batchFile # <<>>
  /\ batchDir' = Append(batchDir, batchFile)
  /\ batchFile' = <<>>
  /\ UNCHANGED <<now, mainFile, statePath, state, pc, work, run,
                 attemptNumber, loop, content, loaded, message, errorType,
                 batcher, output,
                 source, mirror>>

\* for (const file of stateFiles): the files merged one after the other
RECURSIVE MergeFiles(_, _)
MergeFiles(canonical, stateFiles) ==
  IF stateFiles = <<>> THEN canonical
  ELSE MergeFiles(MergeRepos(canonical, Head(stateFiles)), Tail(stateFiles))

\* the orders readdir may list the batch files in
Readdir(dir) ==
  {[i \in 1..Len(dir) |-> dir[p[i]]] :
     p \in {q \in [1..Len(dir) -> 1..Len(dir)] :
              \A i, j \in 1..Len(dir) : q[i] = q[j] => i = j}}

\* merge-states main on the directory: load, merge every file, save
MergeAll(stateFiles) ==
  /\ pc = "stopped"
  /\ batchFile = <<>>
  /\ Len(batchDir) = Len(Shards)
  /\ mainFile' = MergeFiles(mainFile, stateFiles)
  /\ pc' = "merged"
  /\ UNCHANGED <<now, batchFile, statePath, state, work, run,
                 attemptNumber, loop, aside>>

ShardNext ==
  \/ StartShard
  \/ GetRepoMissing
  \/ Enter
  \/ Phase1
  \/ ExistsTrue
  \/ ExistsFalse
  \/ \E m \in ExistsErrors : ExistsThrows(m)
  \/ FatalError
  \/ MigrateOk
  \/ \E m \in MigrateErrors : MigrateThrows(m)
  \/ Phase2
  \/ CloneOk
  \/ CloneRetry
  \/ \E m \in SyncErrors : CloneFails(m)
  \/ PushOk
  \/ PushRetry
  \/ \E m \in SyncErrors : PushFails(m)
  \/ Finish
  \/ Exited
  \/ Upload
  \/ \E stateFiles \in Readdir(batchDir) : MergeAll(stateFiles)

SpecShard == ShardInit /\ [][ShardNext]_vars

\* every batch job of the round has ended and nothing is merged yet
RoundRun == pc = "stopped" /\ batchFile = <<>> /\ Len(batchDir) = Len(Shards)

\* C22: when batch jobs that started from copies of the same canonical file
\* and had disjoint work lists have ended, merging their files in any order
\* gives, for every entity of a work list, the record in the file of the job
\* that had it, and leaves every record no job changed as it was.
C22_ShardedMerge ==
  RoundRun =>
    \A stateFiles \in Readdir(batchDir) :
      LET merged == MergeFiles(mainFile, stateFiles)
      IN /\ \A k \in 1..Len(Shards) : \A i \in 1..Len(Shards[k]) :
              Has(batchDir[k], Shards[k][i]) =>
                /\ Has(merged, Shards[k][i])
                /\ getRepoState(merged, Shards[k][i])
                     = getRepoState(batchDir[k], Shards[k][i])
         /\ \A i \in 1..Len(mainFile) :
              (\A k \in 1..Len(batchDir) :
                 getRepoState(batchDir[k], mainFile[i].name) = mainFile[i])
                => getRepoState(merged, mainFile[i].name) = mainFile[i]

(* --------------------- classifyError on its own ------------------------ *)
\* SpecClassify draws an error message and applies classifyError to it.

\* the keywords of the three tests of classifyError
TransientKeywords ==
  {KwRateLimit, KwTimeout, KwEconnreset, KwEnotfound, KwNetwork,
   Kw503, Kw502, Kw504}
RecoverableKeywords == {KwAlreadyExists, Kw409, KwConflict}
PermanentKeywords ==
  {KwNotFound, Kw404, KwForbidden, Kw403, KwUnauthorized, Kw401}

\* texts of failures that hold none of the keywords of the first test
PhraseConnectionReset ==
  <<"C","o","n","n","e","c","t","i","o","n"," ","r","e","s","e","t">>
PhraseDns == <<"D","N","S">>

\* what the messages are made of: the keywords, texts in mixed case, texts
\* without a keyword
Fragments ==
  TransientKeywords \cup RecoverableKeywords \cup PermanentKeywords
    \cup {Msg409, Msg404, MsgAlreadyExists, MsgBoom, PhraseConnectionReset,
          PhraseDns}

\* most fragments in a message
MaxFragments == 2

\* the messages of n fragments, a blank between two
RECURSIVE MessagesOfLen(_)
MessagesOfLen(n) ==
  IF n = 0 THEN {<<>>}
  ELSE IF n = 1 THEN Fragments
  ELSE {m \o <<" ">> \o f : m \in MessagesOfLen(n - 1), f \in Fragments}

Messages == UNION {MessagesOfLen(n) : n \in 0..MaxFragments}

ClassifyInit ==
  /\ now = 0
  /\ mainFile = <<>>
  /\ batchFile = <<>>
  /\ statePath = "main"
  /\ state = <<>>
  /\ pc = "stopped"
  /\ work = <<>>
  /\ repoName = ""
  /\ entryState = None
  /\ currentState = None
  /\ calls = <<>>
  /\ attemptNumber = 0
  /\ reposToMigrate = <<>>
  /\ failed = 0
  /\ exitCode = None
  /\ batchDir = <<>>
  /\ content = None
  /\ loaded = None
  /\ message \in Messages
  /\ errorType = None
  /\ batcher = None
  /\ output = None
  /\ source = [version |-> 0, pushedAt |-> 0]
  /\ mirror = None

\* const errorType = classifyError(error)
Classify ==
  /\ errorType = None
  /\ errorType' = Some(classifyError(message))
  /\ UNCHANGED <<now, files, statePath, state, pc, work, run, attemptNumber,
                 loop, batchDir, content, loaded, message, batcher, output,
                 source, mirror>>

ClassifyNext == Classify

SpecClassify == ClassifyInit /\ [][ClassifyNext]_vars

\* the lower-cased message holds one of the keywords
Matches(text, keywords) ==
  \E k \in keywords : includes(toLowerCase(text), k)

\* C23: classifyError gives one of transient, recoverable, permanent for
\* every message; a message with a transient keyword is transient whatever
\* else it holds, one with a recoverable keyword and no transient one is
\* recoverable whatever permanent keyword it holds, one with permanent
\* keywords only is permanent, and one with no keyword is transient. The
\* keywords are looked for in the lower-cased message.
C23_ClassifierOrder ==
  IsSome(errorType) =>
    /\ Get(errorType) \in {"transient", "recoverable", "permanent"}
    /\ Matches(message, TransientKeywords) => Get(errorType) = "transient"
    /\ (/\ ~Matches(message, TransientKeywords)
        /\ Matches(message, RecoverableKeywords))
         => Get(errorType) = "recoverable"
    /\ (/\ ~Matches(message, TransientKeywords)
        /\ ~Matches(message, RecoverableKeywords)
        /\ Matches(message, PermanentKeywords))
         => Get(errorType) = "permanent"
    /\ ~Matches(message, TransientKeywords \cup RecoverableKeywords
                           \cup PermanentKeywords)
         => Get(errorType) = "transient"

\* C23 witness: a message in mixed case with a permanent and a transient
\* keyword has been classified transient
C23_Witness ==
  /\ message = Msg404 \o <<" ">> \o KwRateLimit
  /\ errorType = Some("transient")

\* a message with one of the transient phrases of the specification: rate
\* limit, timeout, connection reset, not found of a DNS lookup, network,
\* 502, 503, 504
HasTransientPhrase(text) ==
  \/ Matches(text, {KwRateLimit, KwTimeout, KwNetwork, Kw502, Kw503, Kw504,
                    toLowerCase(PhraseConnectionReset)})
  \/ /\ Matches(text, {toLowerCase(PhraseDns)})
     /\ Matches(text, {KwNotFound})

\* C24: every message with a transient phrase (a connection reset, a DNS
\* lookup that found nothing, ...) is classified transient, whatever
\* permanent keyword (not found, 404, 403, ...) it also holds.
C24_TransientPhrases ==
  (IsSome(errorType) /\ HasTransientPhrase(message)) =>
    Get(errorType) = "transient"

\* C25: while migrateRepo runs for an entity, the remote call in flight
\* (exists check, migrate request, mirror clone, mirror push) is at its
\* first, second or third attempt, never at a later one.
C25_AtMostThreeAttempts ==
  pc \in {"exists", "migrate", "clone", "push"} => attemptNumber \in 1..3

\* the entity is completed in the snapshot
Completed(repos, name) ==
  Has(repos, name) /\ getRepoState(repos, name).status = "completed"

\* C26: when index main exits, its exit code is not 0 exactly if some
\* entity of its work list is not completed in its state, and the file at
\* statePath holds the record the run has for every entity of the list.
C26_ExitCode ==
  pc = "exited" =>
    /\ exitCode # Some(0)
         <=> \E i \in 1..Len(reposToMigrate) :
               ~Completed(state, reposToMigrate[i])
    /\ \A i \in 1..Len(reposToMigrate) :
         Has(state, reposToMigrate[i]) =>
           /\ Has(Persisted, reposToMigrate[i])
           /\ getRepoState(Persisted, reposToMigrate[i])
                = getRepoState(state, reposToMigrate[i])

(* ------------------------ StateManager.load ---------------------------- *)
\* SpecLoad draws what is on disk at statePath and applies load() of a
\* StateManager that was just constructed.

\* JSON values: an absent key, a string, a number, a boolean, an object
JAbsent == [t |-> "absent"]
JStr(s) == [t |-> "string", str |-> s]
JNum(n) == [t |-> "number", num |-> n]
JBool(b) == [t |-> "boolean", bool |-> b]
JObj(o) == [t |-> "object", obj |-> o]

\* RepoStatusSchema
RepoStatus == {"pending", "in_progress", "completed", "failed", "skipped"}

\* the entries of "repos" tried: with and without name, with a status of
\* the enum, another one and none, attemptCount absent, a number and a
\* string, phases absent and partly given, error absent, a string, a number
RepoDocs ==
  [name : {JStr("a"), JAbsent},
   status : {JStr("pending"), JStr("completed"), JStr("done"), JAbsent},
   attemptCount : {JAbsent, JNum(1), JStr("1")},
   phases : {JAbsent,
             JObj([apiMigration |-> JBool(TRUE), branchSync |-> JAbsent]),
             JObj([apiMigration |-> JStr("yes"), branchSync |-> JAbsent])},
   error : {JAbsent, JStr(MsgBoom), JNum(1)}]

\* the documents tried
StateDocs ==
  [sourceOrg : {JAbsent, JStr("gh"), JStr("other")},
   targetOrg : {JStr("cb"), JNum(1)},
   totalRepos : {JAbsent, JNum(1)},
   repos : {JAbsent, JObj(<<>>)} \cup {JObj(<<r>>) : r \in RepoDocs}]

\* what can be at statePath: nothing, something readFile fails on, a text
\* that is not JSON, a JSON document
FileContents ==
  {[kind |-> "missing"], [kind |-> "unreadable"], [kind |-> "text"]}
    \cup {[kind |-> "json", doc |-> d] : d \in StateDocs}

\* RepoStateSchema accepts the entry
ValidRepo(d) ==
  /\ d.name.t = "string"
  /\ d.status.t = "string" /\ d.status.str \in RepoStatus
  /\ d.attemptCount.t \in {"absent", "number"}
  /\ d.error.t \in {"absent", "string"}
  /\ \/ d.phases.t = "absent"
     \/ /\ d.phases.t = "object"
        /\ d.phases.obj.apiMigration.t \in {"absent", "boolean"}
        /\ d.phases.obj.branchSync.t \in {"absent", "boolean"}

\* MigrationStateSchema accepts the document
ValidState(d) ==
  /\ d.sourceOrg.t = "string"
  /\ d.targetOrg.t = "string"
  /\ d.totalRepos.t \in {"absent", "number"}
  /\ d.repos.t = "object"
  /\ \A i \in 1..Len(d.repos.obj) : ValidRepo(d.repos.obj[i])

\* z.boolean().default(false)
BoolOrFalse(j) == IF j.t = "boolean" THEN j.bool ELSE FALSE

\* RepoStateSchema.parse of an entry it accepts: the defaults filled in
ParseRepo(d) ==
  [name |-> d.name.str, status |-> d.status.str, lastAttempt |-> None,
   completedAt |-> None, lastSyncedAt |-> None, githubPushedAt |-> None,
   error |-> IF d.error.t = "string" THEN Some(d.error.str) ELSE None,
   errorType |-> None,
   attemptCount |-> IF d.attemptCount.t = "number"
                    THEN d.attemptCount.num ELSE 0,
   phases |-> IF d.phases.t = "object"
              THEN [apiMigration |-> BoolOrFalse(d.phases.obj.apiMigration),
                    branchSync |-> BoolOrFalse(d.phases.obj.branchSync)]
              ELSE [apiMigration |-> FALSE, branchSync |-> FALSE]]

\* MigrationStateSchema.parse: throws, or gives the state
ParseState(d) ==
  IF ValidState(d)
  THEN [threw |-> FALSE,
        value |-> [sourceOrg |-> d.sourceOrg.str, targetOrg |-> d.targetOrg.str,
                   totalRepos |-> IF d.totalRepos.t = "number"
                                  THEN d.totalRepos.num ELSE 0,
                   repos |-> [i \in 1..Len(d.repos.obj) |->
                                ParseRepo(d.repos.obj[i])]]]
  ELSE [threw |-> TRUE]

\* new StateManager(statePath, sourceOrg, targetOrg): this.state
Constructed(sourceOrg, targetOrg) ==
  [sourceOrg |-> sourceOrg, targetOrg |-> targetOrg, totalRepos |-> 0,
   repos |-> <<>>]

\* the body of the try of load: what it throws or assigns to this.state
TryLoad(file, thisState) ==
  IF file.kind = "missing" THEN [threw |-> FALSE, value |-> thisState]
  ELSE IF file.kind \in {"unreadable", "text"} THEN [threw |-> TRUE]
  ELSE ParseState(file.doc)

\* faulty variant: load without its catch
load_NoCatch(file, thisState) ==
  LET tried == TryLoad(file, thisState)
  IN IF tried.threw THEN [raised |-> TRUE, state |-> thisState]
     ELSE [raised |-> FALSE, state |-> tried.value]

\* StateManager.load: whatever is thrown is caught and this.state stays
load(file, thisState) ==
  LET tried == TryLoad(file, thisState)
  IN [raised |-> FALSE,
      state |-> IF tried.threw THEN thisState ELSE tried.value]

\* the organisations the StateManager is constructed with
EnvSourceOrg == "gh"
EnvTargetOrg == "cb"

LoadInit ==
  /\ now = 0
  /\ mainFile = <<>>
  /\ batchFile = <<>>
  /\ statePath = "main"
  /\ state = <<>>
  /\ pc = "stopped"
  /\ work = <<>>
  /\ repoName = ""
  /\ entryState = None
  /\ currentState = None
  /\ calls = <<>>
  /\ attemptNumber = 0
  /\ reposToMigrate = <<>>
  /\ failed = 0
  /\ exitCode = None
  /\ batchDir = <<>>
  /\ content \in {Some(f) : f \in FileContents}
  /\ loaded = None
  /\ message = <<>>
  /\ errorType = None
  /\ batcher = None
  /\ output = None
  /\ source = [version |-> 0, pushedAt |-> 0]
  /\ mirror = None

\* new StateManager(...), await stateManager.load()
Load ==
  /\ loaded = None
  /\ loaded' = Some(load(Get(content),
                         Constructed(EnvSourceOrg, EnvTargetOrg)))
  /\ UNCHANGED <<now, files, statePath, state, pc, work, run, attemptNumber,
                 loop, batchDir, content, message, errorType, batcher,
                 output,
                 source, mirror>>

LoadNext == Load

SpecLoad == LoadInit /\ [][LoadNext]_vars

\* the file is there, can be read, is JSON and passes the schema
UsableFile(file) == file.kind = "json" /\ ValidState(file.doc)

\* C27: load raises nothing. For a file that is missing, cannot be read, is
\* not JSON or does not pass the schema it gives the state of the
\* constructor: its sourceOrg and targetOrg, totalRepos 0, no repos. For a
\* file that passes it gives what the file holds.
C27_LoadFailsOpen ==
  IsSome(loaded) =>
    LET file == Get(content)
        got == Get(loaded).state
    IN /\ ~Get(loaded).raised
       /\ ~UsableFile(file) =>
            /\ got.sourceOrg = EnvSourceOrg
            /\ got.targetOrg = EnvTargetOrg
            /\ got.totalRepos = 0
            /\ got.repos = <<>>
       /\ UsableFile(file) =>
            /\ got.sourceOrg = file.doc.sourceOrg.str
            /\ got.targetOrg = file.doc.targetOrg.str
            /\ file.doc.totalRepos.t = "number"
                 => got.totalRepos = file.doc.totalRepos.num
            /\ Len(got.repos) = Len(file.doc.repos.obj)
            /\ \A i \in 1..Len(got.repos) :
                 /\ got.repos[i].name = file.doc.repos.obj[i].name.str
                 /\ got.repos[i].status = file.doc.repos.obj[i].status.str
                 /\ file.doc.repos.obj[i].attemptCount.t = "number"
                      => got.repos[i].attemptCount
                           = file.doc.repos.obj[i].attemptCount.num

\* C27 witness: a JSON file with a status outside the enum was loaded and
\* the state is the empty one of the constructor
C27_Witness ==
  /\ IsSome(loaded)
  /\ Get(content).kind = "json"
  /\ Get(content).doc.sourceOrg = JStr("other")
  /\ Get(content).doc.repos.t = "object"
  /\ Len(Get(content).doc.repos.obj) = 1
  /\ Get(content).doc.repos.obj[1].status = JStr("done")
  /\ Get(loaded).state.repos = <<>>
  /\ Get(loaded).state.sourceOrg = EnvSourceOrg

\* C28: no step of discovery, of a run of index main or of a merge takes a
\* name out of the canonical file, and no step of a running process takes a
\* name out of the state file it saves to or out of its state in memory.
C28_NamesKept ==
  [][/\ Keys(mainFile) \subseteq Keys(mainFile')
     /\ WorkerStep => /\ Keys(batchFile) \subseteq Keys(batchFile')
                      /\ Keys(state) \subseteq Keys(state')
                      /\ Keys(Persisted) \subseteq Keys(state)]_vars

\* C28 witness: the canonical file holds an entity that was discovered,
\* run in a batch and merged, and a further discovery and run are behind it
C28_Witness ==
  /\ pc = "stopped"
  /\ Has(mainFile, "a")
  /\ getRepoState(mainFile, "a").attemptCount >= 2
  /\ IsSome(getRepoState(mainFile, "a").githubPushedAt)
  /\ Has(batchFile, "a")

\* what no discovery changes in a record
KeptByDiscovery(old, new) ==
  /\ new.phases = old.phases
  /\ new.attemptCount = old.attemptCount
  /\ new.lastAttempt = old.lastAttempt
  /\ new.completedAt = old.completedAt
  /\ new.lastSyncedAt = old.lastSyncedAt

\* status, error and errorType are the same
SameOutcome(old, new) ==
  /\ new.status = old.status
  /\ new.error = old.error
  /\ new.errorType = old.errorType

\* the record is pending and discovery with this cutoff finds its
\* repository inactive (not listed, or not pushed to since the cutoff)
Inactive(old, filtered, days, t) ==
  /\ days > 0
  /\ old.status = "pending"
  /\ old.name \notin ActiveNames(filtered, days, t)

\* the discovery steps keep to the rule for the records they find
DiscoveryKeeps(Rule(_, _, _, _)) ==
  /\ \A days \in 0..MaxDays : \A filtered \in Listings(now) :
       Discover(filtered, days) =>
         \A i \in 1..Len(mainFile) :
           /\ Has(mainFile', mainFile[i].name)
           /\ Rule(mainFile[i], getRepoState(mainFile', mainFile[i].name),
                   filtered, days)
  /\ \A filtered \in Listings(now) :
       DiscoverPlain(filtered) =>
         \A i \in 1..Len(mainFile) : mainFile'[i] = mainFile[i]

\* the claim as worded: status, error and errorType always stay
FrameAsWorded(old, new, filtered, days) ==
  KeptByDiscovery(old, new) /\ SameOutcome(old, new)

\* amended: a pending record of an inactive repository becomes skipped
FrameAmended(old, new, filtered, days) ==
  /\ KeptByDiscovery(old, new)
  /\ IF Inactive(old, filtered, days, now)
     THEN /\ new.status = "skipped"
          /\ IsSome(new.error)
          /\ new.errorType = None
     ELSE SameOutcome(old, new)

\* C29 as worded: a discovery run changes nothing but githubPushedAt in a
\* record that exists, whatever the inactivity cutoff.
C29_DiscoveryFrameAsStated == [][DiscoveryKeeps(FrameAsWorded)]_vars

\* C29 amended: a discovery run changes nothing but githubPushedAt in a
\* record that exists, except that with a cutoff above 0 it turns a pending
\* record whose repository is not among the active ones into skipped, with
\* an error text and no errorType; phases, attemptCount and the time stamps
\* of the runs stay in every case.
C29_DiscoveryFrame == [][DiscoveryKeeps(FrameAmended)]_vars

\* C29 witness: a discovery has marked a record skipped as inactive, next
\* to a failed record it left alone
C29_Witness ==
  /\ \E i \in 1..Len(mainFile) :
       /\ mainFile[i].status = "skipped"
       /\ mainFile[i].error = Some(MsgInactive)
  /\ \E i \in 1..Len(mainFile) : mainFile[i].status = "failed"

\* every failed record of the snapshot has an error message and the
\* errorType classifyError gives for it
FailedAreClassified(repos) ==
  \A i \in 1..Len(repos) :
    repos[i].status = "failed" =>
      /\ IsSome(repos[i].error)
      /\ repos[i].errorType = Some(classifyError(Get(repos[i].error)))

\* C30: in every state reached by discovery, runs and merges, a record with
\* status failed carries an error message and errorType is classifyError of
\* that message: in the canonical file, in the batch file and in the memory
\* of the running process.
C30_FailedClassified ==
  /\ FailedAreClassified(mainFile)
  /\ FailedAreClassified(batchFile)
  /\ FailedAreClassified(state)

\* C30 witness: a record that failed permanently in its second run, in a
\* batch job, has been merged into the canonical file
C30_Witness ==
  /\ pc = "stopped"
  /\ Has(mainFile, "a")
  /\ getRepoState(mainFile, "a").status = "failed"
  /\ getRepoState(mainFile, "a").error = Some(Msg404)
  /\ getRepoState(mainFile, "a").errorType = Some("permanent")
  /\ getRepoState(mainFile, "a").attemptCount = 2
  /\ Has(batchFile, "a")
  /\ getRepoState(batchFile, "a") = getRepoState(mainFile, "a")

(* ------------------- discover-and-batch main, batches ------------------ *)
\* SpecBatch runs discover-and-batch main once on a canonical file: load,
\* discoverRepos, getReposToProcess(maxBatches * batchSize), the loop of
\* createBatches step by step, and the write of the batch plan.

\* largest config.batchSize and MAX_BATCHES tried (the smallest is -1:
\* neither the configuration file nor the environment is validated)
MaxBatchSize == 2
MaxBatches == 2

\* batches built before the model stops following a loop that does not end
MaxBuilt == 4

\* the records of the canonical files tried, before the name is filled in
BatchKinds ==
  {k \in SelKindsCoarse :
     \/ k.status = "pending"
     \/ k.status = "failed" /\ k.errorType \in {Some("transient"),
                                                Some("permanent")}
     \/ k.status = "completed" /\ k.githubPushedAt = Some(MaxTime)}

BatchSnapshots ==
  UNION {{[i \in 1..n |-> [k[i] EXCEPT !.name = SelOrder[i]]] :
            k \in [1..n -> BatchKinds]} : n \in 0..Len(SelOrder)}

BatchInit ==
  /\ now = MaxTime
  /\ mainFile \in BatchSnapshots
  /\ batchFile = <<>>
  /\ statePath = "main"
  /\ state = <<>>
  /\ pc = "stopped"
  /\ work = <<>>
  /\ repoName = ""
  /\ entryState = None
  /\ currentState = None
  /\ calls = <<>>
  /\ attemptNumber = 0
  /\ reposToMigrate = <<>>
  /\ failed = 0
  /\ exitCode = None
  /\ batchDir = <<>>
  /\ content = None
  /\ loaded = None
  /\ message = <<>>
  /\ errorType = None
  /\ batcher = None
  /\ output = None
  /\ source = [version |-> 0, pushedAt |-> 0]
  /\ mirror = None

\* Math.floor(i / batchSize) + 1; 0 / 0 is NaN (no number)
batchNumber(i, batchSize) ==
  IF batchSize > 0 THEN Some((i \div batchSize) + 1)
  ELSE IF batchSize < 0 THEN Some(((0 - i) \div (0 - batchSize)) + 1)
  ELSE None

\* main up to the call of createBatches: load, discoverRepos (with its
\* save), getReposToProcess; createBatches is entered with i = 0
StartBatching(filtered, excludeInactiveDays, enableSync, maxBatches, batchSize) ==
  /\ pc = "stopped"
  /\ output = None
  /\ mainFile' = discoverRepos(mainFile, filtered, excludeInactiveDays, now)
  /\ batcher' = Some([batchSize |-> batchSize,
                      maxBatches |-> maxBatches,
                      reposToProcess |->
                        getReposToProcess(mainFile', maxBatches * batchSize,
                                          enableSync, excludeInactiveDays,
                                          now),
                      i |-> 0,
                      batches |-> <<>>])
  /\ pc' = "createBatches"
  /\ UNCHANGED <<now, batchFile, statePath, state, work, run, attemptNumber,
                 loop, batchDir, content, loaded, message, errorType,
                 output,
                 source, mirror>>

\* faulty variant: the index moves on by one, whatever batchSize is
LoopBody_StepsByOne(b) ==
  [b EXCEPT
     !.batches = Append(@, [batchNumber |-> batchNumber(b.i, b.batchSize),
                            repos |-> JsSlice(b.reposToProcess, b.i,
                                              b.i + b.batchSize)]),
     !.i = @ + 1]

\* the body of the for loop of createBatches and its i += batchSize
LoopBody(b) ==
  [b EXCEPT
     !.batches = Append(@, [batchNumber |-> batchNumber(b.i, b.batchSize),
                            repos |-> JsSlice(b.reposToProcess, b.i,
                                              b.i + b.batchSize)]),
     !.i = @ + b.batchSize]

\* one turn of the loop: i < repos.length
CreateBatchesLoop ==
  /\ pc = "createBatches"
  /\ Get(batcher).i < Len(Get(batcher).reposToProcess)
  /\ Len(Get(batcher).batches) < MaxBuilt
  /\ batcher' = Some(LoopBody(Get(batcher)))
  /\ UNCHANGED <<now, files, statePath, state, pc, work, run, attemptNumber,
                 loop, batchDir, content, loaded, message, errorType,
                 output,
                 source, mirror>>

\* the plan main writes to OUTPUT_PATH
Plan(b) ==
  [totalRepos |-> Len(b.reposToProcess),
   totalBatches |-> Len(b.batches),
   batchesToRun |-> Len(JsSlice(b.batches, 0, b.maxBatches)),
   batches |-> JsSlice(b.batches, 0, b.maxBatches)]

\* the loop is left, createBatches returns; main slices the batches,
\* writes the plan and ends
WritePlan ==
  /\ pc = "createBatches"
  /\ ~(Get(batcher).i < Len(Get(batcher).reposToProcess))
  /\ output' = Some(Plan(Get(batcher)))
  /\ pc' = "stopped"
  /\ UNCHANGED <<now, files, statePath, state, work, run, attemptNumber,
                 loop, batchDir, content, loaded, message, errorType,
                 batcher,
                 source, mirror>>

BatchNext ==
  \/ \E filtered \in Listings(now) : \E days \in 0..MaxDays :
       \E enableSync \in BOOLEAN : \E maxBatches \in (0 - 1)..MaxBatches :
         \E batchSize \in (0 - 1)..MaxBatchSize :
           StartBatching(filtered, days, enableSync, maxBatches, batchSize)
  \/ CreateBatchesLoop
  \/ WritePlan

SpecBatch == BatchInit /\ [][BatchNext]_vars

\* the scheduler runs the process on
SpecBatchLive == SpecBatch /\ WF_vars(BatchNext)

\* the work lists of the batches one after the other
RECURSIVE Concat(_)
Concat(batches) ==
  IF batches = <<>> THEN <<>>
  ELSE Head(batches).repos \o Concat(Tail(batches))

\* the written batches cut the work list into slices of at most batchSize
\* names, in order, numbered from 1, and none is left for a later run
IsPartition(b, o) ==
  /\ Concat(o.batches) = b.reposToProcess
  /\ \A j \in 1..Len(o.batches) :
       /\ o.batches[j].batchNumber = Some(j)
       /\ Len(o.batches[j].repos) >= 1
       /\ Len(o.batches[j].repos) <= b.batchSize
  /\ \A j, k \in 1..Len(o.batches) :
       j # k => Range(o.batches[j].repos) \cap Range(o.batches[k].repos) = {}
  /\ o.totalBatches <= b.maxBatches
  /\ o.batchesToRun = o.totalBatches
  /\ o.totalRepos = Len(b.reposToProcess)

\* C31 as worded: for batchSize >= 1 the batches written partition the work
\* list, and totalBatches <= maxBatches, batchesToRun = totalBatches.
C31_PartitionAsStated ==
  (IsSome(output) /\ Get(batcher).batchSize >= 1) =>
    IsPartition(Get(batcher), Get(output))

\* C31 amended: the same for batchSize >= 1 and maxBatches >= 0.
C31_Partition ==
  (/\ IsSome(output)
   /\ Get(batcher).batchSize >= 1
   /\ Get(batcher).maxBatches >= 0) =>
    IsPartition(Get(batcher), Get(output))

\* C31 witness: a plan of two batches, the first of them full, the second
\* with the one name that was left
C31_Witness ==
  /\ IsSome(output)
  /\ Get(batcher).batchSize = 2
  /\ Get(batcher).maxBatches = 2
  /\ Len(Get(output).batches) = 2
  /\ Len(Get(output).batches[1].repos) = 2
  /\ Len(Get(output).batches[2].repos) = 1

\* C39: once createBatches is entered it returns and the plan is written,
\* whatever batchSize the configuration file gave.
C39_CreateBatchesTerminates == (pc = "createBatches") ~> IsSome(output)

\* the partials the callers of setRepoState pass: those of markInProgress,
\* markCompleted, markFailed, markSkipped, markPhaseComplete and
\* updateGithubPushedAt
Partials ==
  {[status |-> "in_progress", lastAttempt |-> Some(MaxTime),
    attemptCount |-> 2],
   [status |-> "completed", completedAt |-> Some(MaxTime),
    lastSyncedAt |-> Some(MaxTime), error |-> None, errorType |-> None,
    phases |-> [apiMigration |-> TRUE, branchSync |-> TRUE]],
   [status |-> "failed", error |-> Some(Msg404),
    errorType |-> Some("permanent")],
   [status |-> "skipped", error |-> Some(MsgInactive), errorType |-> None],
   [phases |-> [apiMigration |-> TRUE, branchSync |-> FALSE]],
   [githubPushedAt |-> Some(0)]}

\* what the claim says of setRepoState(repoName, partial) on repos
UpsertFrame(repos, name, partial) ==
  LET result == setRepoState(repos, name, partial)
      before == IF Has(repos, name) THEN getRepoState(repos, name)
                ELSE [name |-> name, status |-> "pending",
                      lastAttempt |-> None, completedAt |-> None,
                      lastSyncedAt |-> None, githubPushedAt |-> None,
                      error |-> None, errorType |-> None, attemptCount |-> 0,
                      phases |-> [apiMigration |-> FALSE,
                                  branchSync |-> FALSE]]
  IN /\ Has(result, name)
     /\ \A f \in DOMAIN before :
          getRepoState(result, name)[f]
            = IF f \in DOMAIN partial THEN partial[f] ELSE before[f]
     /\ Len(result) = Len(repos) + (IF Has(repos, name) THEN 0 ELSE 1)
     /\ \A i \in 1..Len(repos) :
          /\ result[i].name = repos[i].name
          /\ repos[i].name # name => result[i] = repos[i]

MaxRunEntities == 2

RunSnapshots == {s \in SelSnapshots : Len(s) <= MaxRunEntities}

RunsInit ==
  /\ now = MaxTime
  /\ mainFile \in RunSnapshots
  /\ batchFile = <<>>
  /\ statePath = "main"
  /\ state = <<>>
  /\ pc = "stopped"
  /\ work = <<>>
  /\ repoName = ""
  /\ entryState = None
  /\ currentState = None
  /\ calls = <<>>
  /\ attemptNumber = 0
  /\ reposToMigrate = <<>>
  /\ failed = 0
  /\ exitCode = None
  /\ batchDir = <<>>
  /\ content = None
  /\ loaded = None
  /\ message = <<>>
  /\ errorType = None
  /\ batcher = None
  /\ output = None
  /\ source = [version |-> 0, pushedAt |-> 0]
  /\ mirror = None

\* attemptCount is counted up to MaxAttempts and stays there, so that the
\* runs can go on for ever in a finite model; nothing reads the count
CountedTo(repos, name, max) ==
  [i \in 1..Len(repos) |->
     IF repos[i].name = name /\ repos[i].attemptCount > max
     THEN [repos[i] EXCEPT !.attemptCount = max] ELSE repos[i]]

\* how one call of migrateRepo ends: both phases done, the sync failed
\* with a transient error, the API migration failed with a recoverable or
\* with a permanent one
\* the errors syncBranches fails with in a call of migrateRepo, one of
\* each class of classifyError
RunErrors == {Kw503, Kw409, Kw404}

\* the rest of migrateRepo after markInProgress: phase 1 done and then
\* either phase 2 done and markCompleted, or syncBranches failed
Outcome(thrown, repos, name, t) ==
  IF thrown = None
  THEN OnSynced(markPhaseComplete(repos, name, "apiMigration"), name, t)
  ELSE OnSyncError(markPhaseComplete(repos, name, "apiMigration"), name,
                   Get(thrown))

\* one pass of the loop of index main: migrateRepo from markInProgress to
\* its return, all saves included, and results.push
MigrateRepo(thrown) ==
  /\ pc = "loop"
  /\ work # <<>>
  /\ LET name == Head(work)
     IN \E marked \in {CountedTo(markInProgress(state, name, now), name,
                                 MaxAttempts)} :
          \E out \in {Outcome(thrown, marked, name, now)} :
            /\ repoName' = name
            /\ entryState' = IF Has(state, name)
                             THEN Some(getRepoState(state, name)) ELSE None
            /\ failed' = IF Succeeded(out.state, name) THEN failed
                          ELSE failed + 1
            /\ state' = out.state
            /\ mainFile' = out.state
  /\ work' = Tail(work)
  /\ UNCHANGED <<now, batchFile, statePath, pc, currentState, calls,
                 attemptNumber, reposToMigrate, exitCode, aside>>

RunsNext ==
  \/ \E maxParallelRepos \in 1..MaxRunEntities :
       StartFromState(maxParallelRepos)
  \/ MigrateRepo(None)
  \/ \E errorMessage \in RunErrors : MigrateRepo(Some(errorMessage))
  \/ Finish
  \/ Exited

SpecRuns == RunsInit /\ [][RunsNext]_vars

\* every run goes on to its end and another run follows
SpecRunsLive == SpecRuns /\ WF_vars(RunsNext)

Pending(n) == Has(mainFile, n) /\ getRepoState(mainFile, n).status = "pending"

Selected(n) == n \in Range(reposToMigrate)

\* C33: over run after run with maxCount >= 1, an entity that is pending
\* is selected by getReposToProcess in some run, whatever the other
\* entities do.
C33_NoStarvation ==
  \A n \in {SelOrder[i] : i \in 1..MaxRunEntities} : Pending(n) ~> Selected(n)

\* ---------------------------------------------------------------------
\* One entity whose source goes on changing while it is migrated and
\* discovered: the pushes to the source, the mirror clone of syncBranches
\* that reads it, and the stamp of markCompleted.

\* the most pushes to the source
MaxVersion == 2

SyncKinds ==
  {NewRepoState("a"),
   [NewRepoState("a") EXCEPT !.githubPushedAt = Some(0)]}

SyncInit ==
  /\ now = 0
  /\ mainFile \in {<<>>} \cup {<<k>> : k \in SyncKinds}
  /\ batchFile = <<>>
  /\ statePath = "main"
  /\ state = <<>>
  /\ pc = "stopped"
  /\ work = <<>>
  /\ repoName = ""
  /\ entryState = None
  /\ currentState = None
  /\ calls = <<>>
  /\ attemptNumber = 0
  /\ reposToMigrate = <<>>
  /\ failed = 0
  /\ exitCode = None
  /\ batchDir = <<>>
  /\ content = None
  /\ loaded = None
  /\ message = <<>>
  /\ errorType = None
  /\ batcher = None
  /\ output = None
  /\ source = [version |-> 0, pushedAt |-> 0]
  /\ mirror = None

\* somebody pushes to the source repository, later than the push before:
\* GitHub sets pushed_at
SourcePush ==
  /\ source.version < MaxVersion
  /\ source.pushedAt < now
  /\ source' = [version |-> source.version + 1, pushedAt |-> now]
  /\ UNCHANGED <<now, files, statePath, state, pc, work, run, attemptNumber,
                 loop, batchDir, content, loaded, message, errorType,
                 batcher, output, mirror>>

\* discover-and-batch main up to the save of discoverRepos, with the
\* listing GitHub returns now
DiscoverSource(excludeInactiveDays) ==
  /\ pc = "stopped"
  /\ mainFile' = discoverRepos(mainFile,
                               <<[name |-> "a",
                                  pushedAt |-> Some(source.pushedAt)]>>,
                               excludeInactiveDays, now)
  /\ UNCHANGED <<now, batchFile, statePath, state, pc, work, run,
                 attemptNumber, loop, aside>>

\* index main for what getReposToProcess returns with sync enabled, and
\* migrateRepo up to phase 2: markInProgress, save, currentState, phase 1
\* (the target exists or is created), then the test of phases.branchSync
SyncEnter ==
  /\ pc = "stopped"
  /\ work' = getReposToProcess(mainFile, MaxCount, TRUE, 0, now)
  /\ work' # <<>>
  /\ getRepoState(mainFile, Head(work')).attemptCount < MaxAttempts
  /\ \E marked \in {markInProgress(mainFile, Head(work'), now)} :
       /\ mainFile' = marked
       /\ currentState' = Some(getRepoState(marked, Head(work')))
       /\ state' = markPhaseComplete(marked, Head(work'), "apiMigration")
       /\ entryState' = Some(getRepoState(mainFile, Head(work')))
  /\ repoName' = Head(work')
  /\ reposToMigrate' = work'
  /\ pc' = IF skipBranchSync(Get(currentState')) THEN "push" ELSE "clone"
  /\ UNCHANGED <<now, batchFile, statePath, calls, attemptNumber, failed,
                 exitCode, aside>>

\* syncBranches: git clone --mirror of the source has read its content
MirrorClone ==
  /\ pc = "clone"
  /\ mirror' = Some(source.version)
  /\ pc' = "push"
  /\ UNCHANGED <<now, files, statePath, state, work, run, attemptNumber,
                 loop, batchDir, content, loaded, message, errorType,
                 batcher, output, source>>

\* the push of the mirror to the target succeeded (or phase 2 was
\* skipped): markPhaseComplete, markCompleted, save, and the process ends
SyncDone ==
  /\ pc = "push"
  /\ \E out \in {IF skipBranchSync(Get(currentState))
                 THEN OnSyncSkipped(state, repoName, now)
                 ELSE OnSynced(state, repoName, now)} :
       mainFile' = out.state
  /\ pc' = "stopped"
  /\ state' = <<>>
  /\ work' = <<>>
  /\ repoName' = ""
  /\ entryState' = None
  /\ currentState' = None
  /\ reposToMigrate' = <<>>
  /\ UNCHANGED <<now, batchFile, statePath, calls, attemptNumber, failed,
                 exitCode, aside>>

\* the clone or the push failed for good: markFailed, save, and the
\* process ends
SyncFails(errorMessage) ==
  /\ pc \in {"clone", "push"}
  /\ ~skipBranchSync(Get(currentState))
  /\ \E out \in {OnSyncError(state, repoName, errorMessage)} :
       mainFile' = out.state
  /\ pc' = "stopped"
  /\ state' = <<>>
  /\ work' = <<>>
  /\ repoName' = ""
  /\ entryState' = None
  /\ currentState' = None
  /\ reposToMigrate' = <<>>
  /\ UNCHANGED <<now, batchFile, statePath, calls, attemptNumber, failed,
                 exitCode, aside>>

SyncNext ==
  \/ Tick
  \/ SourcePush
  \/ \E days \in 0..MaxDays : DiscoverSource(days)
  \/ SyncEnter
  \/ MirrorClone
  \/ SyncDone
  \/ \E errorMessage \in RunErrors : SyncFails(errorMessage)

SpecSync == SyncInit /\ [][SyncNext]_vars

Record == getRepoState(mainFile, "a")

\* the source was pushed to after the last mirror clone read it and
\* before markCompleted stamped lastSyncedAt, and discovery has recorded
\* the time of that push
MissedPush ==
  /\ pc = "stopped"
  /\ Has(mainFile, "a")
  /\ Record.status = "completed"
  /\ IsSome(mirror)
  /\ Get(mirror) < source.version
  /\ IsSome(Record.lastSyncedAt)
  /\ source.pushedAt < Get(Record.lastSyncedAt)
  /\ Record.githubPushedAt = Some(source.pushedAt)

\* C34: when the source is pushed to between the mirror clone and the
\* stamp of markCompleted, then once discovery has recorded the time of
\* that push getReposNeedingSync reports the entity.
C34_NoLostUpdate ==
  MissedPush => "a" \in Range(getReposNeedingSync(mainFile, 0, now))

\* C35: when the batch jobs of a round have ended, merging their files
\* into the canonical file gives the same canonical file in whatever order
\* readdir lists them.
C35_MergeOrderIndependent ==
  RoundRun =>
    \A stateFiles, otherOrder \in Readdir(batchDir) :
      MergeFiles(mainFile, stateFiles) = MergeFiles(mainFile, otherOrder)

\* C36: merging a batch file that has just been merged into the canonical
\* file once more leaves the canonical file as it is.
C36_MergeIdempotent ==
  MergeRepos(MergeRepos(mainFile, batchFile), batchFile)
    = MergeRepos(mainFile, batchFile)

\* C37: after the merge of a batch file, no entity of the canonical file has
\* a lower attemptCount than before, and no phase flag that was true is
\* false.
C37_MergeMonotone ==
  [][Merge =>
       \A i \in 1..Len(mainFile) :
         LET before == mainFile[i]
             after == getRepoState(mainFile', before.name)
         IN /\ after.attemptCount >= before.attemptCount
            /\ before.phases.apiMigration => after.phases.apiMigration
            /\ before.phases.branchSync => after.phases.branchSync]_vars

\* C36 witness: the first merge changes the canonical file: a completed
\* and a failed batch record both replace what the canonical file has
C36_Witness ==
  /\ Len(mainFile) = 2
  /\ Len(batchFile) = 2
  /\ batchFile[1].status = "completed"
  /\ batchFile[2].status = "failed"
  /\ getRepoState(MergeRepos(mainFile, batchFile), "a") # mainFile[1]
  /\ getRepoState(MergeRepos(mainFile, batchFile), "b") # mainFile[2]

\* the listing has the name
Listed(filtered, name) == \E j \in 1..Len(filtered) : filtered[j].name = name

\* the listing has the name with a push time before the cutoff
ListedOld(filtered, name, days, t) ==
  \E j \in 1..Len(filtered) :
    /\ filtered[j].name = name
    /\ IsSome(filtered[j].pushedAt)
    /\ Get(filtered[j].pushedAt) < t - days

\* C38: discovery with an inactivity cutoff makes a pending record skipped
\* only when the listing has the repository with a push time before the
\* cutoff; a pending record whose repository the listing lacks stays
\* pending; a skipped record whose repository the listing shows as active
\* becomes pending again.
C38_SkipRule ==
  [][\A days \in 1..MaxDays : \A filtered \in Listings(now) :
       Discover(filtered, days) =>
         \A i \in 1..Len(mainFile) :
           LET old == mainFile[i]
               new == getRepoState(mainFile', old.name)
           IN /\ (old.status = "pending" /\ new.status = "skipped")
                   => ListedOld(filtered, old.name, days, now)
              /\ (old.status = "pending" /\ ~Listed(filtered, old.name))
                   => new.status = "pending"
              /\ (/\ old.status = "skipped"
                  /\ old.name \in ActiveNames(filtered, days, now))
                   => new.status = "pending"]_vars

====
